---------------------------- MODULE Spec2Model ----------------------------
(***************************************************************************)
(* Servidor concurrente de tareas (Laboratorio 4, servidor_concurrente.py). *)
(*                                                                         *)
(* procesar_tareas lanza un hilo por tarea; cada hilo ejecuta              *)
(* procesar_tarea bajo el semaforo de BaseDeDatos, escribe una linea en el *)
(* archivo de su categoria bajo el lock de esa categoria y, para una       *)
(* tesis, actualiza largo.txt bajo lock_largo.                             *)
(*                                                                         *)
(* Las cadenas de Python son secuencias de simbolos (un prefijo, una       *)
(* palabra, un separador, un espacio o un salto de linea por simbolo); las *)
(* operaciones de cadena del codigo se calculan sobre esas secuencias.     *)
(* El contenido de largo.txt es una secuencia de caracteres.               *)
(*                                                                         *)
(* El modulo incluye ademas los dos programas de concurrencia de Continua: *)
(* la competencia de pinguinos y la pizzeria con grafo de precedencia.     *)
(***************************************************************************)
EXTENDS Integers, Sequences, FiniteSets, TLC

VARIABLES
    lista_tareas,   \* argumento de procesar_tareas
    max_hilos,      \* argumento de BaseDeDatos.__init__
    semaforo,       \* valor de bd.semaforo (plazas libres)
    locks,          \* lock -> hilo que lo tiene, 0 si esta libre
    archivos,       \* archivo existente -> contenido
    hilos,          \* hilo -> posicion y variables locales de procesar_tarea
    principal,      \* posicion del hilo principal
    log,            \* registros emitidos con logging, en orden
    inicial,        \* contenido de los archivos antes del lote
    fallos,         \* fallos de E/S que el almacenamiento aun puede producir
    demanda,        \* demanda.txt: si existe y sus lineas
    \* competencia de pinguinos (Continua, clase del 24-oct)
    peces_disponibles,  \* peces que quedan en el area de pesca
    mutex,              \* pinguino que tiene el mutex, o 0 si esta libre
    pinguinos,          \* pinguino -> posicion de run y peces_comidos
    competencia,        \* posicion de competencia_pinguinos
    \* pizzeria (Continua, clase del 23-oct)
    pedidos,            \* lista de pedidos, cada uno una lista de etapas
    hilos_pedido,       \* pedido -> posicion y variables de ejecutar_pedido
    pizzeria            \* posicion del programa principal de la pizzeria

\* variables del servidor del Laboratorio 4
lab4 == <<lista_tareas, max_hilos, semaforo, locks, archivos, hilos,
          principal, log, inicial, fallos, demanda>>

\* variables de los programas de Continua
continua == <<peces_disponibles, mutex, pinguinos, competencia, pedidos,
              hilos_pedido, pizzeria>>

vars == <<lab4, continua>>

\* los programas de Continua no se ejecutan
ContinuaSinEjecutar ==
    /\ peces_disponibles = 0
    /\ mutex = 0
    /\ pinguinos = <<>>
    /\ competencia = [pc |-> "sin_ejecutar", k |-> 0]
    /\ pedidos = <<>>
    /\ hilos_pedido = <<>>
    /\ pizzeria = [pc |-> "sin_ejecutar", k |-> 0]

(***************************************************************************)
(* Cotas del modelo.                                                       *)
(***************************************************************************)
MaxTareas == 2     \* largo maximo de lista_tareas
MaxHilos == 2      \* max_hilos se toma de 1..MaxHilos
MaxFallos == 1     \* fallos de E/S por lote en SpecFallo

(***************************************************************************)
(* Operaciones de cadena de Python sobre secuencias de simbolos.           *)
(***************************************************************************)
Espacio == " "
SaltoDeLinea == "\n"
Blancos == {Espacio, SaltoDeLinea}

\* str.startswith
startswith(s, p) ==
    /\ Len(s) >= Len(p)
    /\ SubSeq(s, 1, Len(p)) = p

\* str.replace(p, ""), con p de un solo simbolo: quita todas sus apariciones
replace(s, p) == SelectSeq(s, LAMBDA c : c # p)

\* str.strip
RECURSIVE lstrip(_)
lstrip(s) ==
    IF s # <<>> /\ Head(s) \in Blancos THEN lstrip(Tail(s)) ELSE s

RECURSIVE rstrip(_)
rstrip(s) ==
    IF s # <<>> /\ s[Len(s)] \in Blancos
    THEN rstrip(SubSeq(s, 1, Len(s) - 1))
    ELSE s

strip(s) == rstrip(lstrip(s))

\* p in s
contiene(s, p) == \E k \in 1..Len(s) : s[k] = p

\* indice de la primera aparicion de p en s (p aparece en s)
find(s, p) == CHOOSE k \in 1..Len(s) : s[k] = p /\ \A j \in 1..(k - 1) : s[j] # p

\* str.split(p, 1): lo que precede y lo que sigue a la primera aparicion
split1(s, p) ==
    IF contiene(s, p)
    THEN <<SubSeq(s, 1, find(s, p) - 1), SubSeq(s, find(s, p) + 1, Len(s))>>
    ELSE <<s>>

\* len(s.split()): cantidad de tramos maximales sin blancos
contar_palabras(s) ==
    Cardinality({k \in 1..Len(s) :
        /\ s[k] \notin Blancos
        /\ (k = 1 \/ s[k - 1] \in Blancos)})

\* cantidad de lineas terminadas de un archivo
lineas(c) == Cardinality({k \in 1..Len(c) : c[k] = SaltoDeLinea})

(***************************************************************************)
(* str(int), str.isdigit e int(str) sobre secuencias de caracteres.        *)
(***************************************************************************)
Digitos == <<"0", "1", "2", "3", "4", "5", "6", "7", "8", "9">>

RECURSIVE str(_)
str(n) ==
    IF n < 10 THEN <<Digitos[n + 1]>>
    ELSE Append(str(n \div 10), Digitos[(n % 10) + 1])

\* caracteres que str.isdigit acepta y que int rechaza; "^2" es el
\* superindice dos (U+00B2)
DigitosNoDecimales == {"^2"}

\* todos los caracteres son digitos decimales
decimal(s) == \A k \in 1..Len(s) : \E d \in 1..10 : Digitos[d] = s[k]

isdigit(s) ==
    /\ s # <<>>
    /\ \A k \in 1..Len(s) :
           \/ \E d \in 1..10 : Digitos[d] = s[k]
           \/ s[k] \in DigitosNoDecimales

ValorDigito(c) == (CHOOSE d \in 1..10 : Digitos[d] = c) - 1

RECURSIVE int(_)
int(s) ==
    IF Len(s) = 1 THEN ValorDigito(s[1])
    ELSE 10 * int(SubSeq(s, 1, Len(s) - 1)) + ValorDigito(s[Len(s)])

(***************************************************************************)
(* Evaluador simbolico externo (sympy.integrate / sympy.diff): devuelve un *)
(* resultado o lanza SympifyError ante una expresion mal formada.          *)
(***************************************************************************)
Valor(v) == [ok |-> TRUE, val |-> v, e |-> "ninguna"]
Lanza(e) == [ok |-> FALSE, val |-> <<>>, e |-> e]

integrate(expr) ==
    CASE expr = <<"x**2">> -> Valor(<<"x**3/3">>)
      [] expr = <<"sin(x)">> -> Valor(<<"-cos(x)">>)
      [] OTHER -> Lanza("SympifyError")

diff(expr) ==
    CASE expr = <<"sin(x)">> -> Valor(<<"cos(x)">>)
      [] expr = <<"x**2">> -> Valor(<<"2*x">>)
      [] OTHER -> Lanza("SympifyError")

(***************************************************************************)
(* Tareas de las que se forman los lotes.                                  *)
(***************************************************************************)
Tareas ==
    { <<"integral:", " ", "x**2">>,
      <<"integral:", " ", "x**2+(">>,
      <<"derivada:", " ", "sin(x)">>,
      <<"tesis:", " ", "T1", ";", " ", "hola", " ", "mundo", " ", "prueba">>,
      <<"tesis:", " ", "hola">>,
      <<"otra", " ", "cosa">> }

RECURSIVE Listas(_)
Listas(n) ==
    IF n = 0 THEN {<<>>}
    ELSE Listas(n - 1) \cup
         {Append(l, t) : l \in {m \in Listas(n - 1) : Len(m) = n - 1}, t \in Tareas}

(***************************************************************************)
(* BaseDeDatos: locks y archivos.                                          *)
(***************************************************************************)
Locks == {"lock_integrales", "lock_derivadas", "lock_tesis", "lock_largo"}
Archivos == {"arch_integrales", "arch_derivadas", "arch_tesis", "arch_largo"}
Registros == {"arch_integrales", "arch_derivadas", "arch_tesis"}

\* variante: la cadena if/elif acepta tambien 'Integral:' y 'derivative:'
rama_laxa(tarea) ==
    IF startswith(tarea, <<"integral:">>) \/ startswith(tarea, <<"Integral:">>)
    THEN "integral"
    ELSE IF startswith(tarea, <<"derivada:">>) \/ startswith(tarea, <<"derivative:">>)
    THEN "derivada"
    ELSE IF startswith(tarea, <<"tesis:">>) THEN "tesis"
    ELSE "invalida"

\* rama de la cadena if/elif/else de procesar_tarea que toma la tarea
rama(tarea) ==
    IF startswith(tarea, <<"integral:">>) THEN "integral"
    ELSE IF startswith(tarea, <<"derivada:">>) THEN "derivada"
    ELSE IF startswith(tarea, <<"tesis:">>) THEN "tesis"
    ELSE "invalida"

\* variante: un unico lock para los tres archivos de categoria
lock_de_unico(r) == "lock_integrales"

lock_de(r) ==
    CASE r = "integral" -> "lock_integrales"
      [] r = "derivada" -> "lock_derivadas"
      [] r = "tesis" -> "lock_tesis"

arch_de(r) ==
    CASE r = "integral" -> "arch_integrales"
      [] r = "derivada" -> "arch_derivadas"
      [] r = "tesis" -> "arch_tesis"

\* expr = tarea.replace(prefijo, "").strip()
expr_de(tarea, prefijo) == strip(replace(tarea, prefijo))

\* _, resto = tarea.split("tesis:", 1)
resto_de(tarea) == split1(tarea, "tesis:")[2]

\* variante: sin ';' el titulo queda vacio
titulo_de_sin_defecto(tarea) ==
    IF contiene(resto_de(tarea), ";")
    THEN strip(split1(resto_de(tarea), ";")[1])
    ELSE <<>>

titulo_de(tarea) ==
    IF contiene(resto_de(tarea), ";")
    THEN strip(split1(resto_de(tarea), ";")[1])
    ELSE <<"Sin titulo">>

texto_de(tarea) ==
    IF contiene(resto_de(tarea), ";")
    THEN strip(split1(resto_de(tarea), ";")[2])
    ELSE strip(resto_de(tarea))

\* linea que la rama escribe en su archivo
linea_de(h) ==
    CASE h.rama = "integral" ->
            <<"Integral de ">> \o h.expr \o <<" = ">> \o h.resultado \o <<SaltoDeLinea>>
      [] h.rama = "derivada" ->
            <<"Derivada de ">> \o h.expr \o <<" = ">> \o h.resultado \o <<SaltoDeLinea>>
      [] h.rama = "tesis" ->
            <<"Tesis: ">> \o h.titulo \o <<" -- ">> \o h.texto \o <<SaltoDeLinea>>

\* f.write sobre un archivo abierto con "w": escribe desde la posicion 0
sobrescribir(c, s) == s \o SubSeq(c, Len(s) + 1, Len(c))

\* variante: la clausula es except OSError
EsOSError(e) == e \in {"OSError"}

\* except Exception: clases que la clausula captura
EsException(e) == e \in {"SympifyError", "OSError", "ValueError"}

(***************************************************************************)
(* Estado inicial: BaseDeDatos.__init__ ya creo el semaforo y los locks y  *)
(* esta por llamar a crear_archivos; el lote aun no se lanzo.              *)
(***************************************************************************)
HiloNuevo ==
    [pc |-> "sin_crear", rama |-> "ninguna", expr |-> <<>>, resultado |-> <<>>,
     titulo |-> <<>>, texto |-> <<>>, palabras |-> 0, acumulado |-> 0,
     nuevo_total |-> 0, e |-> "ninguna"]

\* archivos recien creados por crear_archivos
DiscoVacio == [a \in Archivos |-> <<>>]

\* directorio en el que ningun archivo existe todavia
SinArchivos == [a \in {} |-> <<>>]

\* archivos que deja una ejecucion anterior del lote de test_end_to_end
DiscoPrevio ==
    [arch_integrales |-> <<"Integral de ", "x**2", " = ", "x**3/3", SaltoDeLinea>>,
     arch_derivadas |-> <<"Derivada de ", "sin(x)", " = ", "cos(x)", SaltoDeLinea>>,
     arch_tesis |-> <<"Tesis: ", "T1", " -- ", "hola", " ", "mundo", " ", "prueba",
                      SaltoDeLinea>>,
     arch_largo |-> <<"3">>]

\* estados en los que crear_archivos puede encontrar el disco
DiscosPrevios == {SinArchivos, DiscoPrevio}

\* os.path.exists(archivo)
exists(d, a) == a \in DOMAIN d

\* disco tras open(a, modo) y la escritura de c como contenido de a
guardar(d, a, c) == [b \in DOMAIN d \cup {a} |-> IF b = a THEN c ELSE d[b]]

\* contenido sobre el que escribe open(a, "a"): el del archivo, o vacio si
\* open lo crea
contenido_a(d, a) == IF exists(d, a) THEN d[a] ELSE <<>>

\* variante: crear_archivos abre con "w" sin consultar os.path.exists
archivos_truncados(d) == [a \in Archivos |-> <<>>]

\* disco que deja crear_archivos: crea vacio cada archivo que no existe
archivos_creados(d) == [a \in Archivos |-> IF exists(d, a) THEN d[a] ELSE <<>>]

\* procesar_tareas llamada con una lista, sin leer demanda.txt
SinDemanda == [existe |-> FALSE, lineas |-> <<>>]

InitComun ==
    /\ lista_tareas \in Listas(MaxTareas)
    /\ max_hilos \in 1..MaxHilos
    /\ semaforo = max_hilos
    /\ locks = [l \in Locks |-> 0]
    /\ archivos \in DiscosPrevios
    /\ hilos = [i \in 1..Len(lista_tareas) |-> HiloNuevo]
    /\ principal = [pc |-> "init", k |-> 1]
    /\ log = <<>>
    /\ inicial = archivos
    /\ demanda = SinDemanda
    /\ ContinuaSinEjecutar

Init ==
    /\ InitComun
    /\ fallos = 0

InitFallo ==
    /\ InitComun
    /\ fallos = MaxFallos

Hilos == DOMAIN hilos

(***************************************************************************)
(* Hilo principal: fin de BaseDeDatos.__init__ y procesar_tareas.          *)
(***************************************************************************)
\* self.crear_archivos(); al volver, el lote parte del disco que deja
crear_archivos ==
    /\ principal.pc = "init"
    /\ archivos' = archivos_creados(archivos)
    /\ inicial' = archivos_creados(archivos)
    /\ principal' = [principal EXCEPT !.pc = "start"]
    /\ UNCHANGED <<lista_tareas, max_hilos, semaforo, locks, hilos, log, fallos,
                   demanda, continua>>

\* variante: la tarea se clasifica al lanzar su hilo, antes del semaforo
Start_clasifica ==
    /\ principal.pc = "start"
    /\ principal.k <= Len(lista_tareas)
    /\ hilos' = [hilos EXCEPT ![principal.k].pc = "semaforo",
                              ![principal.k].rama = rama(lista_tareas[principal.k])]
    /\ principal' = [principal EXCEPT !.k = @ + 1]
    /\ UNCHANGED <<lista_tareas, max_hilos, semaforo, locks, archivos, log,
                   inicial, fallos,
                   demanda, continua>>

\* for t in lista_tareas: hilo.start()
Start ==
    /\ principal.pc = "start"
    /\ principal.k <= Len(lista_tareas)
    /\ hilos' = [hilos EXCEPT ![principal.k].pc = "semaforo"]
    /\ principal' = [principal EXCEPT !.k = @ + 1]
    /\ UNCHANGED <<lista_tareas, max_hilos, semaforo, locks, archivos, log,
                   inicial, fallos,
                   demanda, continua>>

FinStart ==
    /\ principal.pc = "start"
    /\ principal.k > Len(lista_tareas)
    /\ principal' = [pc |-> "join", k |-> 1]
    /\ UNCHANGED <<lista_tareas, max_hilos, semaforo, locks, archivos, hilos,
                   log, inicial, fallos,
                   demanda, continua>>

\* variante: los hilos no se esperan
join_sin_espera(k) == TRUE

\* condicion con la que h.join() retorna
join_listo(k) == hilos[k].pc = "terminado"

\* for h in hilos: h.join()
Join ==
    /\ principal.pc = "join"
    /\ principal.k <= Len(lista_tareas)
    /\ join_listo(principal.k)
    /\ principal' = [principal EXCEPT !.k = @ + 1]
    /\ UNCHANGED <<lista_tareas, max_hilos, semaforo, locks, archivos, hilos,
                   log, inicial, fallos,
                   demanda, continua>>

Retorno ==
    /\ principal.pc = "join"
    /\ principal.k > Len(lista_tareas)
    /\ principal' = [pc |-> "retorno", k |-> 0]
    /\ UNCHANGED <<lista_tareas, max_hilos, semaforo, locks, archivos, hilos,
                   log, inicial, fallos,
                   demanda, continua>>

(***************************************************************************)
(* procesar_tarea, un paso por accion.  Cada paso es de un hilo i.         *)
(***************************************************************************)
\* variante: la entrada al bloque no espera una plaza libre
semaforo_acquire_sin_espera(i) ==
    /\ hilos[i].pc = "semaforo"
    /\ semaforo' = semaforo - 1
    /\ hilos' = [hilos EXCEPT ![i].pc = "try"]
    /\ UNCHANGED <<lista_tareas, max_hilos, locks, archivos, principal, log,
                   inicial, fallos,
                   demanda, continua>>

\* with bd.semaforo: acquire (bloquea mientras no hay plaza)
semaforo_acquire(i) ==
    /\ hilos[i].pc = "semaforo"
    /\ semaforo > 0
    /\ semaforo' = semaforo - 1
    /\ hilos' = [hilos EXCEPT ![i].pc = "try"]
    /\ UNCHANGED <<lista_tareas, max_hilos, locks, archivos, principal, log,
                   inicial, fallos,
                   demanda, continua>>

\* variante: el error del evaluador se ignora y la rama sigue hacia su archivo
evaluar_ignora_error(h, tarea) ==
    LET r == rama(tarea) IN
    CASE r = "integral" ->
            [h EXCEPT !.rama = r, !.expr = expr_de(tarea, "integral:"),
                      !.resultado = integrate(expr_de(tarea, "integral:")).val,
                      !.pc = "lock"]
      [] r = "derivada" ->
            [h EXCEPT !.rama = r, !.expr = expr_de(tarea, "derivada:"),
                      !.resultado = diff(expr_de(tarea, "derivada:")).val,
                      !.pc = "lock"]
      [] r = "tesis" ->
            [h EXCEPT !.rama = r, !.titulo = titulo_de(tarea),
                      !.texto = texto_de(tarea),
                      !.palabras = contar_palabras(texto_de(tarea)),
                      !.pc = "lock"]
      [] OTHER ->
            [h EXCEPT !.rama = r, !.pc = "finally"]

\* variables locales al terminar la evaluacion de la rama, antes del lock
evaluar(h, tarea) ==
    LET r == rama(tarea) IN
    CASE r = "integral" ->
            LET expr == expr_de(tarea, "integral:")
                res == integrate(expr)
            IN  [h EXCEPT !.rama = r, !.expr = expr, !.resultado = res.val,
                          !.e = res.e,
                          !.pc = IF res.ok THEN "lock" ELSE "except"]
      [] r = "derivada" ->
            LET expr == expr_de(tarea, "derivada:")
                res == diff(expr)
            IN  [h EXCEPT !.rama = r, !.expr = expr, !.resultado = res.val,
                          !.e = res.e,
                          !.pc = IF res.ok THEN "lock" ELSE "except"]
      [] r = "tesis" ->
            [h EXCEPT !.rama = r, !.titulo = titulo_de(tarea),
                      !.texto = texto_de(tarea),
                      !.palabras = contar_palabras(texto_de(tarea)),
                      !.pc = "lock"]
      [] OTHER ->
            [h EXCEPT !.rama = r, !.pc = "finally"]

RegistroLog(nivel, i, msg) == [nivel |-> nivel, hilo |-> i, msg |-> msg]

\* variante: la cadena if/elif no tiene rama else y no emite el error
try_sin_error(i) ==
    /\ hilos[i].pc = "try"
    /\ hilos' = [hilos EXCEPT ![i] = evaluar(@, lista_tareas[i])]
    /\ UNCHANGED <<lista_tareas, max_hilos, semaforo, locks, archivos,
                   principal, log, inicial, fallos,
                   demanda, continua>>

\* try: rama de la tarea y llamada al evaluador; la rama else emite su error
try(i) ==
    /\ hilos[i].pc = "try"
    /\ hilos' = [hilos EXCEPT ![i] = evaluar(@, lista_tareas[i])]
    /\ log' = IF rama(lista_tareas[i]) = "invalida"
              THEN Append(log, RegistroLog("ERROR", i, "Tarea invalida o no reconocida"))
              ELSE log
    /\ UNCHANGED <<lista_tareas, max_hilos, semaforo, locks, archivos,
                   principal, inicial, fallos,
                   demanda, continua>>

\* lock que el hilo espera o tiene segun su posicion
lock_actual(h) ==
    IF h.pc \in {"lock", "append", "unlock"} THEN lock_de(h.rama) ELSE "lock_largo"

\* variante: el bloque se ejecuta sin esperar a que el lock este libre
lock_acquire_sin_exclusion(i) ==
    /\ hilos[i].pc \in {"lock", "lock_largo"}
    /\ locks' = [locks EXCEPT ![lock_actual(hilos[i])] = i]
    /\ hilos' = [hilos EXCEPT ![i].pc = IF @ = "lock" THEN "append" ELSE "leer"]
    /\ UNCHANGED <<lista_tareas, max_hilos, semaforo, archivos, principal, log,
                   inicial, fallos,
                   demanda, continua>>

\* with bd.lock_...: acquire (bloquea mientras otro hilo lo tiene)
lock_acquire(i) ==
    /\ hilos[i].pc \in {"lock", "lock_largo"}
    /\ locks[lock_actual(hilos[i])] = 0
    /\ locks' = [locks EXCEPT ![lock_actual(hilos[i])] = i]
    /\ hilos' = [hilos EXCEPT ![i].pc = IF @ = "lock" THEN "append" ELSE "leer"]
    /\ UNCHANGED <<lista_tareas, max_hilos, semaforo, archivos, principal, log,
                   inicial, fallos,
                   demanda, continua>>

\* variante: el archivo se abre con "w" y la linea reemplaza el contenido
append_modo_w(i) ==
    /\ hilos[i].pc = "append"
    /\ archivos' = guardar(archivos, arch_de(hilos[i].rama), linea_de(hilos[i]))
    /\ hilos' = [hilos EXCEPT ![i].pc = "unlock"]
    /\ UNCHANGED <<lista_tareas, max_hilos, semaforo, locks, principal, log,
                   inicial, fallos,
                   demanda, continua>>

\* variante: la linea se escribe al principio del archivo
append_al_inicio(i) ==
    /\ hilos[i].pc = "append"
    /\ archivos' = guardar(archivos, arch_de(hilos[i].rama),
                            linea_de(hilos[i])
                                \o contenido_a(archivos, arch_de(hilos[i].rama)))
    /\ hilos' = [hilos EXCEPT ![i].pc = "unlock"]
    /\ UNCHANGED <<lista_tareas, max_hilos, semaforo, locks, principal, log,
                   inicial, fallos,
                   demanda, continua>>

\* with open(arch, "a") as f: f.write(linea)
append(i) ==
    /\ hilos[i].pc = "append"
    /\ archivos' = guardar(archivos, arch_de(hilos[i].rama),
                            contenido_a(archivos, arch_de(hilos[i].rama))
                                \o linea_de(hilos[i]))
    /\ hilos' = [hilos EXCEPT ![i].pc = "unlock"]
    /\ UNCHANGED <<lista_tareas, max_hilos, semaforo, locks, principal, log,
                   inicial, fallos,
                   demanda, continua>>

\* variante: la actualizacion de largo.txt esta fuera de la rama de tesis y
\* la hace toda tarea
tras_unlock_siempre_largo(h) ==
    IF h.e # "ninguna" THEN "except"
    ELSE IF h.pc = "unlock" THEN "lock_largo"
    ELSE "finally"

\* posicion que sigue a la salida de un bloque with de lock
tras_unlock(h) ==
    IF h.e # "ninguna" THEN "except"
    ELSE IF h.pc = "unlock" /\ h.rama = "tesis" THEN "lock_largo"
    ELSE "finally"

\* variante: acquire y release sueltos; si sale una excepcion el lock queda tomado
lock_release_sin_excepcion(i) ==
    /\ hilos[i].pc \in {"unlock", "unlock_largo"}
    /\ locks' = IF hilos[i].e # "ninguna"
                THEN locks
                ELSE [locks EXCEPT ![lock_actual(hilos[i])] = 0]
    /\ hilos' = [hilos EXCEPT ![i].pc = tras_unlock(hilos[i])]
    /\ UNCHANGED <<lista_tareas, max_hilos, semaforo, archivos, principal, log,
                   inicial, fallos,
                   demanda, continua>>

\* variante: el bloque de lock_largo esta anidado en el de lock_tesis, que
\* sigue tomado al pasar a la actualizacion de largo.txt
lock_release_anidado(i) ==
    /\ hilos[i].pc \in {"unlock", "unlock_largo"}
    /\ locks' = IF tras_unlock(hilos[i]) = "lock_largo"
                THEN locks
                ELSE [l \in Locks |-> IF locks[l] = i THEN 0 ELSE locks[l]]
    /\ hilos' = [hilos EXCEPT ![i].pc = tras_unlock(hilos[i])]
    /\ UNCHANGED <<lista_tareas, max_hilos, semaforo, archivos, principal, log,
                   inicial, fallos,
                   demanda, continua>>

\* salida del bloque with de un lock: release, tambien si sale una excepcion
lock_release(i) ==
    /\ hilos[i].pc \in {"unlock", "unlock_largo"}
    /\ locks' = [locks EXCEPT ![lock_actual(hilos[i])] = 0]
    /\ hilos' = [hilos EXCEPT ![i].pc = tras_unlock(hilos[i])]
    /\ UNCHANGED <<lista_tareas, max_hilos, semaforo, archivos, principal, log,
                   inicial, fallos,
                   demanda, continua>>

\* valor que el codigo toma del contenido leido de largo.txt
leer_acumulado(contenido) ==
    IF isdigit(strip(contenido)) THEN int(strip(contenido)) ELSE 0

\* variante: lock_largo se suelta tras la lectura y se escribe sin el
leer_y_soltar(i) ==
    /\ hilos[i].pc = "leer"
    /\ locks' = [locks EXCEPT !["lock_largo"] = 0]
    /\ hilos' = [hilos EXCEPT
                    ![i].acumulado = leer_acumulado(archivos["arch_largo"]),
                    ![i].nuevo_total = leer_acumulado(archivos["arch_largo"]) + hilos[i].palabras,
                    ![i].pc = "abrir_w"]
    /\ UNCHANGED <<lista_tareas, max_hilos, semaforo, archivos, principal,
                   log, inicial, fallos,
                   demanda, continua>>

\* int(contenido) lanza ValueError: isdigit acepto un caracter no decimal
int_lanza(contenido) == isdigit(strip(contenido)) /\ ~decimal(strip(contenido))

\* with open(arch_largo, "r"): lectura de acumulado y calculo de nuevo_total;
\* FileNotFoundError deja acumulado en 0, ValueError sale del bloque
leer(i) ==
    /\ hilos[i].pc = "leer"
    /\ hilos' =
          IF ~exists(archivos, "arch_largo")
          THEN [hilos EXCEPT ![i].acumulado = 0,
                             ![i].nuevo_total = hilos[i].palabras,
                             ![i].pc = "abrir_w"]
          ELSE IF int_lanza(archivos["arch_largo"])
          THEN [hilos EXCEPT ![i].e = "ValueError", ![i].pc = "unlock_largo"]
          ELSE [hilos EXCEPT
                    ![i].acumulado = leer_acumulado(archivos["arch_largo"]),
                    ![i].nuevo_total = leer_acumulado(archivos["arch_largo"]) + hilos[i].palabras,
                    ![i].pc = "abrir_w"]
    /\ UNCHANGED <<lista_tareas, max_hilos, semaforo, locks, archivos,
                   principal, log, inicial, fallos,
                   demanda, continua>>

\* open(arch_largo, "w"): trunca el archivo
abrir_w(i) ==
    /\ hilos[i].pc = "abrir_w"
    /\ archivos' = guardar(archivos, "arch_largo", <<>>)
    /\ hilos' = [hilos EXCEPT ![i].pc = "escribir"]
    /\ UNCHANGED <<lista_tareas, max_hilos, semaforo, locks, principal, log,
                   inicial, fallos,
                   demanda, continua>>

\* f.write(str(nuevo_total)) y cierre del archivo
escribir(i) ==
    /\ hilos[i].pc = "escribir"
    /\ archivos' = [archivos EXCEPT
                       !["arch_largo"] = sobrescribir(@, str(hilos[i].nuevo_total))]
    /\ hilos' = [hilos EXCEPT ![i].pc = "unlock_largo"]
    /\ UNCHANGED <<lista_tareas, max_hilos, semaforo, locks, principal, log,
                   inicial, fallos,
                   demanda, continua>>

\* una operacion de archivo lanza OSError; la excepcion sale del bloque with
fallo_es(i) ==
    /\ fallos > 0
    /\ hilos[i].pc \in {"append", "leer", "abrir_w", "escribir"}
    /\ fallos' = fallos - 1
    /\ hilos' = [hilos EXCEPT
                    ![i].e = "OSError",
                    ![i].pc = IF @ = "append" THEN "unlock" ELSE "unlock_largo"]
    /\ UNCHANGED <<lista_tareas, max_hilos, semaforo, locks, archivos,
                   principal, log, inicial,
                   demanda, continua>>

\* variante: tras el error la funcion sale sin pasar por finally
except_sin_finally(i) ==
    /\ hilos[i].pc = "except"
    /\ log' = Append(log, RegistroLog("ERROR", i, hilos[i].e))
    /\ hilos' = [hilos EXCEPT ![i].e = "ninguna", ![i].pc = "salir"]
    /\ UNCHANGED <<lista_tareas, max_hilos, semaforo, locks, archivos,
                   principal, inicial, fallos,
                   demanda, continua>>

\* except Exception as e: logging.error
except(i) ==
    /\ hilos[i].pc = "except"
    /\ IF EsException(hilos[i].e)
       THEN /\ log' = Append(log, RegistroLog("ERROR", i, hilos[i].e))
            /\ hilos' = [hilos EXCEPT ![i].e = "ninguna", ![i].pc = "finally"]
       ELSE /\ log' = log
            /\ hilos' = [hilos EXCEPT ![i].pc = "finally"]
    /\ UNCHANGED <<lista_tareas, max_hilos, semaforo, locks, archivos,
                   principal, inicial, fallos,
                   demanda, continua>>

\* finally: logging.info de tarea completada
finally(i) ==
    /\ hilos[i].pc = "finally"
    /\ log' = Append(log, RegistroLog("INFO", i, "completada"))
    /\ hilos' = [hilos EXCEPT ![i].pc = "salir"]
    /\ UNCHANGED <<lista_tareas, max_hilos, semaforo, locks, archivos,
                   principal, inicial, fallos,
                   demanda, continua>>

\* variante: acquire y release sueltos; el camino de error no hace release
semaforo_release_solo_exito(i) ==
    /\ hilos[i].pc = "salir"
    /\ semaforo' = IF \E k \in 1..Len(log) : log[k].hilo = i /\ log[k].nivel = "ERROR"
                   THEN semaforo
                   ELSE semaforo + 1
    /\ hilos' = [hilos EXCEPT ![i].pc = "terminado"]
    /\ UNCHANGED <<lista_tareas, max_hilos, locks, archivos, principal, log,
                   inicial, fallos,
                   demanda, continua>>

\* salida del bloque with bd.semaforo: release; el hilo termina
semaforo_release(i) ==
    /\ hilos[i].pc = "salir"
    /\ semaforo' = semaforo + 1
    /\ hilos' = [hilos EXCEPT ![i].pc = "terminado"]
    /\ UNCHANGED <<lista_tareas, max_hilos, locks, archivos, principal, log,
                   inicial, fallos,
                   demanda, continua>>

Paso(i) ==
    \/ semaforo_acquire(i)
    \/ try(i)
    \/ lock_acquire(i)
    \/ append(i)
    \/ lock_release(i)
    \/ leer(i)
    \/ abrir_w(i)
    \/ escribir(i)
    \/ except(i)
    \/ finally(i)
    \/ semaforo_release(i)

Next ==
    \/ crear_archivos
    \/ Start
    \/ FinStart
    \/ Join
    \/ Retorno
    \/ \E i \in Hilos : Paso(i)

NextFallo ==
    \/ Next
    \/ \E i \in Hilos : fallo_es(i)

Spec == Init /\ [][Next]_vars

SpecFallo == InitFallo /\ [][NextFallo]_vars

(***************************************************************************)
(* Definiciones auxiliares de las propiedades.                             *)
(***************************************************************************)
Terminado == principal.pc = "retorno"

\* posiciones dentro del bloque with bd.semaforo
Dentro ==
    {"try", "lock", "append", "unlock", "lock_largo", "leer", "abrir_w",
     "escribir", "unlock_largo", "except", "finally", "salir"}

EnVuelo == {i \in Hilos : hilos[i].pc \in Dentro}

\* posiciones entre la lectura de largo.txt y la salida de lock_largo
RegionLargo == {"leer", "abrir_w", "escribir", "unlock_largo"}

EsTesis(t) == rama(t) = "tesis"

\* el evaluador rechaza la expresion de la tarea
FallaEvaluador(t) ==
    \/ rama(t) = "integral" /\ ~integrate(expr_de(t, "integral:")).ok
    \/ rama(t) = "derivada" /\ ~diff(expr_de(t, "derivada:")).ok

\* la tarea se evalua con exito
Exitosa(t) == rama(t) # "invalida" /\ ~FallaEvaluador(t)

RECURSIVE SumaPalabras(_)
SumaPalabras(l) ==
    IF l = <<>> THEN 0
    ELSE (IF EsTesis(Head(l)) THEN contar_palabras(texto_de(Head(l))) ELSE 0)
         + SumaPalabras(Tail(l))

Cuantas(l, r) == Cardinality({k \in 1..Len(l) : rama(l[k]) = r /\ Exitosa(l[k])})

RegistrosDe(i, nivel) == {k \in 1..Len(log) : log[k].hilo = i /\ log[k].nivel = nivel}

Fallida(i) == RegistrosDe(i, "ERROR") # {}

\* entero que guarda un contenido de largo.txt (vacio cuenta como cero)
Total(c) == IF c = <<>> THEN 0 ELSE int(c)

(***************************************************************************)
(* C1: cuando procesar_tareas retorna, largo.txt guarda su valor previo    *)
(* mas la suma de las palabras de los cuerpos de todas las tareas tesis    *)
(* del lote, en todo entrelazado y para toda capacidad del semaforo.       *)
(***************************************************************************)
C1_ContadorExacto ==
    Terminado =>
        /\ Total(archivos["arch_largo"]) =
              Total(inicial["arch_largo"]) + SumaPalabras(lista_tareas)
        /\ (\E k \in 1..Len(lista_tareas) : EsTesis(lista_tareas[k])) =>
              archivos["arch_largo"] =
                 str(Total(inicial["arch_largo"]) + SumaPalabras(lista_tareas))

\* dos tesis (3 y 1 palabras) con capacidad 2 sobre un total previo de 3:
\* la segunda lanzada termina primero y el total queda en 7
C1_Testigo ==
    /\ Terminado
    /\ max_hilos = 2
    /\ Len(lista_tareas) = 2
    /\ \A k \in 1..2 : EsTesis(lista_tareas[k])
    /\ inicial["arch_largo"] = <<"3">>
    /\ archivos["arch_largo"] = <<"7">>
    /\ log[1].hilo = 2

(***************************************************************************)
(* C2: la lectura de largo.txt y su reescritura ocurren en una sola        *)
(* adquisicion de lock_largo: el hilo que esta entre su lectura y la       *)
(* salida del lock es el que tiene lock_largo, ningun otro hilo esta en    *)
(* esa region, y el valor leido sigue siendo el persistido cuando el hilo  *)
(* va a reescribirlo (no hay lectura obsoleta ni actualizacion perdida).   *)
(***************************************************************************)
C2_LecturaEscrituraAtomica ==
    \A i \in Hilos :
        hilos[i].pc \in RegionLargo =>
            /\ locks["lock_largo"] = i
            /\ \A j \in Hilos \ {i} : hilos[j].pc \notin RegionLargo
            /\ hilos[i].pc = "abrir_w" =>
                  hilos[i].acumulado = Total(archivos["arch_largo"])

\* una tesis ya leyo el total previo (3) y aun no lo reescribio, y otra tesis
\* admitida espera lock_largo sin poder leerlo
C2_Testigo ==
    \E i, j \in Hilos :
        /\ i # j
        /\ hilos[i].pc = "escribir"
        /\ hilos[i].acumulado = 3
        /\ archivos["arch_largo"] = <<>>
        /\ hilos[j].pc = "lock_largo"

(***************************************************************************)
(* C3: en todo estado alcanzable, la cantidad de tareas que entraron al    *)
(* bloque with bd.semaforo y aun no salieron es a lo sumo max_hilos.       *)
(***************************************************************************)
C3_CotaDeAdmision == Cardinality(EnVuelo) <= max_hilos

\* lote mayor que la capacidad: todas las plazas ocupadas y un hilo esperando
C3_Testigo ==
    /\ Len(lista_tareas) > max_hilos
    /\ Cardinality(EnVuelo) = max_hilos
    /\ \E i \in Hilos : hilos[i].pc = "semaforo"
    /\ \E i \in Hilos : hilos[i].pc = "escribir"

(***************************************************************************)
(* C4: toda adquisicion del semaforo tiene exactamente una liberacion en   *)
(* todo camino de salida (exito, excepcion del evaluador, excepcion de     *)
(* almacenamiento, tarea no reconocida): siempre plazas libres + tareas en *)
(* vuelo = max_hilos, las plazas libres nunca exceden max_hilos, y al      *)
(* terminar el lote todas las plazas estan libres.                         *)
(***************************************************************************)
C4_SemaforoPareado ==
    /\ semaforo + Cardinality(EnVuelo) = max_hilos
    /\ semaforo <= max_hilos
    /\ Terminado => semaforo = max_hilos

\* lote terminado en que una tarea salio por excepcion de almacenamiento y
\* otra por excepcion del evaluador, con capacidad 2
C4_Testigo ==
    /\ Terminado
    /\ max_hilos = 2
    /\ semaforo = max_hilos
    /\ \E k \in 1..Len(log) : log[k].msg = "OSError"
    /\ \E k \in 1..Len(log) : log[k].msg = "SympifyError"

(***************************************************************************)
(* C5: al terminar el lote, integrales.txt gana exactamente una linea por  *)
(* tarea integral evaluada con exito, derivadas.txt una por derivada       *)
(* evaluada con exito y tesis.txt una por tarea tesis; la linea de cada    *)
(* tarea exitosa figura tantas veces como tareas la producen: ninguna      *)
(* escritura se pierde ni se duplica.                                      *)
(***************************************************************************)
\* veces que la linea figura, como linea entera, en el contenido
Veces(c, linea) ==
    Cardinality({k \in 1..Len(c) :
        /\ k = 1 \/ c[k - 1] = SaltoDeLinea
        /\ k + Len(linea) - 1 <= Len(c)
        /\ SubSeq(c, k, k + Len(linea) - 1) = linea})

C5_RegistrosCompletos ==
    Terminado =>
        /\ \A r \in {"integral", "derivada", "tesis"} :
              lineas(archivos[arch_de(r)]) =
                 lineas(inicial[arch_de(r)]) + Cuantas(lista_tareas, r)
        /\ \A i \in Hilos :
              Exitosa(lista_tareas[i]) =>
                 Veces(archivos[arch_de(hilos[i].rama)], linea_de(hilos[i])) =
                    Veces(inicial[arch_de(hilos[i].rama)], linea_de(hilos[i]))
                    + Cardinality({j \in Hilos : lista_tareas[j] = lista_tareas[i]})

\* dos integrales validas con capacidad 2 sobre un archivo que ya tenia una linea
C5_Testigo ==
    /\ Terminado
    /\ max_hilos = 2
    /\ Cuantas(lista_tareas, "integral") = 2
    /\ lineas(inicial["arch_integrales"]) = 1
    /\ lineas(archivos["arch_integrales"]) = 3
    /\ Veces(archivos["arch_integrales"],
             <<"Integral de ", "x**2", " = ", "x**3/3", SaltoDeLinea>>) = 3
    /\ archivos["arch_derivadas"] = inicial["arch_derivadas"]

(***************************************************************************)
(* C6: se emite exactamente un registro de tarea completada por tarea,     *)
(* cualquiera sea el resultado: nunca hay mas de uno por hilo, todo hilo   *)
(* terminado tiene el suyo, y al terminar el lote hay tantos como tareas,  *)
(* tambien con tareas no reconocidas o con excepciones de evaluacion o de  *)
(* almacenamiento.                                                         *)
(***************************************************************************)
C6_UnRegistroPorTarea ==
    /\ \A i \in Hilos :
          /\ Cardinality(RegistrosDe(i, "INFO")) <= 1
          /\ hilos[i].pc = "terminado" => Cardinality(RegistrosDe(i, "INFO")) = 1
    /\ Terminado =>
          Cardinality({k \in 1..Len(log) : log[k].nivel = "INFO"}) = Len(lista_tareas)

\* lote terminado de una tarea no reconocida y una tesis cuya escritura fallo
C6_Testigo ==
    /\ Terminado
    /\ Len(lista_tareas) = 2
    /\ \A i \in Hilos : Fallida(i)
    /\ \E k \in 1..Len(log) : log[k].msg = "OSError"
    /\ \E k \in 1..Len(log) : log[k].msg = "Tarea invalida o no reconocida"
    /\ Cardinality({k \in 1..Len(log) : log[k].nivel = "INFO"}) = 2

(***************************************************************************)
(* C7: aislamiento de fallos.  procesar_tarea nunca propaga una excepcion: *)
(* ningun hilo termina con una excepcion sin capturar.  En un lote en que  *)
(* exactamente una tarea tiene una expresion mal formada, las demas son    *)
(* validas y el almacenamiento no falla, al terminar el lote las demas     *)
(* tareas dejaron todos sus efectos en registros y contador y exactamente  *)
(* una tarea, la mal formada, quedo fallida.                               *)
(***************************************************************************)
UnaMalFormada ==
    /\ Cardinality({k \in 1..Len(lista_tareas) : FallaEvaluador(lista_tareas[k])}) = 1
    /\ \A k \in 1..Len(lista_tareas) : rama(lista_tareas[k]) # "invalida"

C7_AislamientoDeFallos ==
    /\ \A i \in Hilos : hilos[i].pc = "terminado" => hilos[i].e = "ninguna"
    /\ (Terminado /\ UnaMalFormada /\ fallos = MaxFallos) =>
          /\ \A r \in {"integral", "derivada", "tesis"} :
                lineas(archivos[arch_de(r)]) =
                   lineas(inicial[arch_de(r)]) + Cuantas(lista_tareas, r)
          /\ Total(archivos["arch_largo"]) =
                Total(inicial["arch_largo"]) + SumaPalabras(lista_tareas)
          /\ \A i \in Hilos : Fallida(i) <=> FallaEvaluador(lista_tareas[i])
          /\ Cardinality({i \in Hilos : Fallida(i)}) = 1

\* la mal formada va primera y falla antes de que la tesis que la sigue deje
\* su linea y sume sus palabras al contador
C7_Testigo ==
    /\ Terminado
    /\ Len(lista_tareas) = 2
    /\ FallaEvaluador(lista_tareas[1])
    /\ EsTesis(lista_tareas[2])
    /\ fallos = MaxFallos
    /\ log[1] = RegistroLog("ERROR", 1, "SympifyError")
    /\ lineas(archivos["arch_tesis"]) = lineas(inicial["arch_tesis"]) + 1
    /\ Total(archivos["arch_largo"]) = Total(inicial["arch_largo"]) + 3

(***************************************************************************)
(* C8: una tarea integral o derivada cuyo evaluador falla no escribe en    *)
(* ningun registro, no cambia el contador y nunca adquiere un lock de      *)
(* registro ni lock_largo: ninguno de sus pasos cambia archivos ni locks,  *)
(* y al terminar su unico rastro es el log (un error y un completada).     *)
(***************************************************************************)
C8_FalloDeEvaluadorSinEfectos ==
    /\ [][\A i \in Hilos :
            (FallaEvaluador(lista_tareas[i]) /\ hilos'[i] # hilos[i]) =>
                (archivos' = archivos /\ locks' = locks)]_vars
    /\ [](\A i \in Hilos :
            FallaEvaluador(lista_tareas[i]) =>
                /\ \A l \in Locks : locks[l] # i
                /\ hilos[i].pc = "terminado" =>
                      /\ Cardinality(RegistrosDe(i, "ERROR")) = 1
                      /\ Cardinality(RegistrosDe(i, "INFO")) = 1)

\* la tarea mal formada termino mientras otra tarea tiene un lock y ya escribio
C8_Testigo ==
    \E i, j \in Hilos :
        /\ FallaEvaluador(lista_tareas[i])
        /\ hilos[i].pc = "terminado"
        /\ hilos[j].pc = "unlock"
        /\ archivos # inicial

(***************************************************************************)
(* C9: una tarea cuyo texto no empieza con ningun prefijo conocido termina *)
(* siempre fallida, deja los tres registros y el contador sin cambios y    *)
(* nunca adquiere ninguno de los cuatro locks.                             *)
(***************************************************************************)
C9_NoReconocidaSinEfectos ==
    /\ [][\A i \in Hilos :
            (rama(lista_tareas[i]) = "invalida" /\ hilos'[i] # hilos[i]) =>
                (archivos' = archivos /\ locks' = locks)]_vars
    /\ [](\A i \in Hilos :
            rama(lista_tareas[i]) = "invalida" =>
                /\ \A l \in Locks : locks[l] # i
                /\ hilos[i].pc = "terminado" => Fallida(i))

\* lote solo de tareas no reconocidas, terminado, con los archivos intactos
C9_Testigo ==
    /\ Terminado
    /\ Len(lista_tareas) = 2
    /\ \A i \in Hilos : rama(lista_tareas[i]) = "invalida" /\ Fallida(i)
    /\ archivos = inicial
    /\ inicial["arch_largo"] = <<"3">>

(***************************************************************************)
(* C10: procesar_tareas lanza un hilo por elemento de lista_tareas y solo  *)
(* retorna cuando todos llegaron a su estado final: al pasar a los join    *)
(* todos los hilos fueron lanzados, y al retornar todo hilo termino, emitio*)
(* su registro de completada, no tiene locks y devolvio su plaza.          *)
(***************************************************************************)
C10_RetornaTrasTodosLosHilos ==
    /\ principal.pc \in {"join", "retorno"} =>
          \A i \in Hilos : hilos[i].pc # "sin_crear"
    /\ Terminado =>
          /\ \A i \in Hilos :
                /\ hilos[i].pc = "terminado"
                /\ RegistrosDe(i, "INFO") # {}
          /\ \A l \in Locks : locks[l] = 0
          /\ semaforo = max_hilos

\* retorno con dos tesis: el ultimo hilo lanzado fue el primero en completar
C10_Testigo ==
    /\ Terminado
    /\ Len(lista_tareas) = 2
    /\ \A i \in Hilos : hilos[i].pc = "terminado" /\ hilos[i].rama = "tesis"
    /\ log[1].hilo = 2
    /\ log[2].hilo = 1

(***************************************************************************)
(* Planificacion justa.  Mientras algun hilo puede dar un paso, el sistema *)
(* operativo acaba por ejecutar alguno: un release de semaforo o de lock   *)
(* despierta a quien espera.  Los fallos de E/S no tienen justicia: pueden *)
(* ocurrir o no.                                                           *)
(***************************************************************************)
Justicia == WF_vars(Next)

SpecJusto == InitFallo /\ [][NextFallo]_vars /\ Justicia

\* C11: con planificacion justa, todo hilo que espera el semaforo entra al
\* bloque, todo hilo del lote termina y procesar_tareas retorna, con o sin
\* fallos de E/S; ningun estado alcanzable anterior al retorno deja sin paso
\* posible a todos los hilos (no hay bloqueo mutuo entre semaforo y locks).
C11_TodoTermina ==
    /\ \A i \in 1..MaxTareas :
          (i \in Hilos /\ hilos[i].pc = "semaforo")
              ~> (i \in Hilos /\ hilos[i].pc \in Dentro)
    /\ \A i \in 1..MaxTareas :
          (i \in Hilos) ~> (i \in Hilos /\ hilos[i].pc = "terminado")
    /\ <>Terminado
    /\ [](Terminado \/ ENABLED Next)

\* un hilo espera el semaforo sin plazas libres mientras otro, dentro del
\* bloque, sale de lock_largo con un OSError
C11_Testigo ==
    \E i, j \in Hilos :
        /\ hilos[i].pc = "semaforo"
        /\ semaforo = 0
        /\ hilos[j].pc = "unlock_largo"
        /\ hilos[j].e = "OSError"
        /\ locks["lock_largo"] = j

(***************************************************************************)
(* Exclusion por categoria.                                                *)
(***************************************************************************)
\* posiciones entre el acquire y el release del lock de un archivo de categoria
RegionRegistro == {"append", "unlock"}

\* hilos dentro de la seccion critica del archivo de la rama r
EnRegistro(r) == {i \in Hilos : hilos[i].pc \in RegionRegistro /\ hilos[i].rama = r}

\* C12: en todo estado alcanzable, a lo sumo un hilo esta entre el acquire y
\* el release del lock de una categoria, y ese hilo es quien tiene el lock;
\* cada archivo de categoria es siempre una secuencia de lineas enteras.
C12_AppendSerializado ==
    /\ \A r \in {"integral", "derivada", "tesis"} :
          /\ Cardinality(EnRegistro(r)) <= 1
          /\ \A i \in EnRegistro(r) : locks[lock_de(r)] = i
    /\ \A a \in Registros \cap DOMAIN archivos :
          archivos[a] = <<>> \/ archivos[a][Len(archivos[a])] = SaltoDeLinea

\* dos tareas de la misma categoria admitidas a la vez: una escribe su linea
\* y la otra espera el lock de esa categoria
C12_Testigo ==
    \E i, j \in Hilos :
        /\ i # j
        /\ hilos[i].rama = hilos[j].rama
        /\ hilos[i].pc = "append"
        /\ hilos[j].pc = "lock"
        /\ locks[lock_de(hilos[i].rama)] = i

\* C13: un hilo que espera el lock del archivo de su categoria puede tomarlo
\* siempre que ningun hilo de esa misma categoria este en la seccion critica,
\* tengan quien tengan los locks de las otras categorias y lock_largo.
C13_CategoriasIndependientes ==
    \A i \in Hilos :
        (hilos[i].pc = "lock" /\ EnRegistro(hilos[i].rama) = {})
            => ENABLED lock_acquire(i)

\* dos tareas de categorias distintas escriben a la vez, cada una con el lock
\* de su archivo
C13_Testigo ==
    \E i, j \in Hilos :
        /\ hilos[i].rama # hilos[j].rama
        /\ hilos[i].pc = "append"
        /\ hilos[j].pc = "append"
        /\ locks[lock_de(hilos[i].rama)] = i
        /\ locks[lock_de(hilos[j].rama)] = j
        /\ max_hilos >= 2

(***************************************************************************)
(* Ejecucion de referencia: las tareas de la lista, una tras otra.         *)
(***************************************************************************)
\* disco que deja procesar_tarea(bd, t) ejecutada sola sobre el disco d
UnaTarea(t, d) ==
    LET h == evaluar(HiloNuevo, t)
        d1 == guardar(d, arch_de(h.rama), contenido_a(d, arch_de(h.rama)) \o linea_de(h))
    IN  IF ~Exitosa(t) THEN d
        ELSE IF h.rama = "tesis"
        THEN guardar(d1, "arch_largo", str(leer_acumulado(d1["arch_largo"]) + h.palabras))
        ELSE d1

RECURSIVE Secuencial(_, _)
Secuencial(l, d) ==
    IF l = <<>> THEN d ELSE Secuencial(Tail(l), UnaTarea(Head(l), d))

\* lineas que una tarea de Tareas puede escribir
LineasPosibles == {linea_de(evaluar(HiloNuevo, t)) : t \in {u \in Tareas : Exitosa(u)}}

\* c y d tienen las mismas lineas con las mismas repeticiones
MismasLineas(c, d) ==
    /\ Len(c) = Len(d)
    /\ lineas(c) = lineas(d)
    /\ \A linea \in LineasPosibles : Veces(c, linea) = Veces(d, linea)

\* C14: al retornar procesar_tareas, cada archivo de categoria tiene las
\* mismas lineas, con las mismas repeticiones, que la ejecucion de las tareas
\* una tras otra sobre el mismo disco inicial, y largo.txt tiene el mismo
\* contenido; el resultado no depende de max_hilos ni del orden de los pasos.
C14_EstadoFinalDeterminado ==
    Terminado =>
        /\ \A a \in Registros :
              MismasLineas(archivos[a], Secuencial(lista_tareas, inicial)[a])
        /\ archivos["arch_largo"] = Secuencial(lista_tareas, inicial)["arch_largo"]

\* una ejecucion con dos plazas deja las lineas de tesis.txt en un orden
\* distinto al de la ejecucion secuencial
C14_Testigo ==
    /\ Terminado
    /\ max_hilos = 2
    /\ archivos["arch_tesis"] # Secuencial(lista_tareas, inicial)["arch_tesis"]
    /\ archivos["arch_largo"] = Secuencial(lista_tareas, inicial)["arch_largo"]
    /\ archivos["arch_largo"] # inicial["arch_largo"]

(***************************************************************************)
(* Reinicio sobre los archivos de una ejecucion anterior.                  *)
(***************************************************************************)
\* tareas de tesis de la lista
Tesis(l) == {k \in 1..Len(l) : EsTesis(l[k])}

\* C15: crear_archivos deja como estaba todo archivo que ya existe (largo.txt
\* con su valor X y los tres archivos de categoria) y crea los que faltan; si
\* despues se procesa un lote con una sola tesis de Y palabras, largo.txt
\* queda con X+Y.
C15_ReinicioDelContador ==
    /\ [][principal.pc = "init" /\ principal'.pc = "start" =>
             /\ DOMAIN archivos' = Archivos
             /\ \A a \in DOMAIN archivos : archivos'[a] = archivos[a]
             /\ inicial' = archivos']_vars
    /\ [](Terminado /\ Cardinality(Tesis(lista_tareas)) = 1 /\ inicial["arch_largo"] # <<>> =>
             archivos["arch_largo"] =
                 str(int(inicial["arch_largo"]) + SumaPalabras(lista_tareas)))

\* sobre los archivos de la ejecucion anterior (largo.txt con 3), un lote con
\* la tesis de una palabra deja 4 y conserva las lineas anteriores
C15_Testigo ==
    /\ Terminado
    /\ Cardinality(Tesis(lista_tareas)) = 1
    /\ inicial = DiscoPrevio
    /\ archivos["arch_largo"] = <<"4">>
    /\ archivos["arch_integrales"] = DiscoPrevio["arch_integrales"]
    /\ archivos["arch_derivadas"] = DiscoPrevio["arch_derivadas"]
    /\ SubSeq(archivos["arch_tesis"], 1, Len(DiscoPrevio["arch_tesis"])) = DiscoPrevio["arch_tesis"]

(***************************************************************************)
(* largo.txt alterado desde fuera entre la construccion y el lote: borrado *)
(* (el caso que atiende except FileNotFoundError), vaciado (lo que hace    *)
(* limpiar_archivos) o con un contenido que el programa no escribio (el    *)
(* caso que atiende contenido.isdigit()).                                  *)
(***************************************************************************)
\* contenidos ajenos al programa
ContenidosExternos == {<<>>, <<"a", "b", "c">>, <<"^2">>}

\* discos que resultan de alterar largo.txt en el disco d
Alterados(d) ==
    {[a \in DOMAIN d \ {"arch_largo"} |-> d[a]]}
        \cup {guardar(d, "arch_largo", c) : c \in ContenidosExternos}

alterar_largo ==
    /\ principal.pc = "start"
    /\ principal.k = 1
    /\ archivos' \in Alterados(archivos)
    /\ inicial' = archivos'
    /\ UNCHANGED <<lista_tareas, max_hilos, semaforo, locks, hilos, principal,
                   log, fallos,
                   demanda, continua>>

NextExterno ==
    \/ Next
    \/ alterar_largo

SpecExterno == Init /\ [][NextExterno]_vars

\* largo.txt falta en d, esta vacio o no es la escritura decimal de un entero
Ilegible(d) ==
    \/ ~exists(d, "arch_largo")
    \/ strip(d["arch_largo"]) = <<>>
    \/ ~decimal(strip(d["arch_largo"]))

\* C16: si antes del lote largo.txt falta, esta vacio o no se puede leer como
\* entero, su valor cuenta como cero: al retornar, un lote con tesis deja en
\* largo.txt exactamente la suma de sus palabras, y ninguna tesis registra un
\* error.
C16_IlegibleCuentaComoCero ==
    (Terminado /\ Ilegible(inicial) /\ Tesis(lista_tareas) # {}) =>
        /\ exists(archivos, "arch_largo")
        /\ archivos["arch_largo"] = str(SumaPalabras(lista_tareas))
        /\ \A i \in Tesis(lista_tareas) : ~Fallida(i)

(***************************************************************************)
(* Clasificador: lotes de una tarea, con prefijos en otra grafia y en      *)
(* otro idioma, y con tesis sin texto.                                     *)
(***************************************************************************)
TareasGramatica ==
    Tareas \cup
    { <<"Integral:", " ", "x**2">>,
      <<"Derivada:", " ", "sin(x)">>,
      <<"derivative:", " ", "sin(x)">>,
      <<"TESIS:", " ", "hola">>,
      <<"thesis:", " ", "hola">>,
      <<"tesis:">>,
      <<"tesis:", " ", "T1", ";">>,
      <<"tesis:", " ", "T1", ";", " ">> }

InitGramatica ==
    /\ lista_tareas \in {<<t>> : t \in TareasGramatica}
    /\ max_hilos \in 1..MaxHilos
    /\ semaforo = max_hilos
    /\ locks = [l \in Locks |-> 0]
    /\ archivos \in DiscosPrevios
    /\ hilos = [i \in 1..Len(lista_tareas) |-> HiloNuevo]
    /\ principal = [pc |-> "init", k |-> 1]
    /\ log = <<>>
    /\ inicial = archivos
    /\ demanda = SinDemanda
    /\ ContinuaSinEjecutar
    /\ fallos = 0

SpecGramatica == InitGramatica /\ [][Next]_vars

\* el hilo i registro el error de tarea no reconocida
NoReconocida(i) ==
    \E k \in 1..Len(log) :
        log[k] = RegistroLog("ERROR", i, "Tarea invalida o no reconocida")

\* C17 (enunciado original): la rama que toma una tarea es la de su prefijo
\* sin distinguir mayusculas y aceptando 'derivative:' y 'thesis:'; la tarea
\* es no reconocida si y solo si ninguno de esos prefijos coincide.
C17_ClasificadorBilingue ==
    LET lower(p) ==
            CASE p = "Integral:" -> "integral:"
              [] p = "Derivada:" -> "derivada:"
              [] p = "TESIS:" -> "tesis:"
              [] OTHER -> p
        CategoriaBilingue(t) ==
            CASE lower(Head(t)) = "integral:" -> "integral"
              [] lower(Head(t)) \in {"derivada:", "derivative:"} -> "derivada"
              [] lower(Head(t)) \in {"tesis:", "thesis:"} -> "tesis"
              [] OTHER -> "invalida"
    IN
    \A i \in Hilos :
        hilos[i].pc = "terminado" =>
            /\ hilos[i].rama = CategoriaBilingue(lista_tareas[i])
            /\ NoReconocida(i) <=> CategoriaBilingue(lista_tareas[i]) = "invalida"

\* C17 (enmendado): la rama que toma una tarea es la de su prefijo exacto,
\* 'integral:', 'derivada:' o 'tesis:' en minusculas; cualquier otra tarea,
\* incluidas las de prefijo 'derivative:', 'thesis:' o con mayusculas, es no
\* reconocida, y una tarea es no reconocida si y solo si ninguno de los tres
\* prefijos coincide.
C17_ClasificadorExacto ==
    LET CategoriaExacta(t) ==
            CASE Head(t) = "integral:" -> "integral"
              [] Head(t) = "derivada:" -> "derivada"
              [] Head(t) = "tesis:" -> "tesis"
              [] OTHER -> "invalida"
    IN
    \A i \in Hilos :
        hilos[i].pc = "terminado" =>
            /\ hilos[i].rama = CategoriaExacta(lista_tareas[i])
            /\ NoReconocida(i) <=> Head(lista_tareas[i]) \notin {"integral:", "derivada:", "tesis:"}

\* una tarea con prefijo 'derivative:' o 'Integral:' termina como no reconocida
C17_Testigo ==
    \E i \in Hilos :
        /\ Head(lista_tareas[i]) \in {"derivative:", "Integral:"}
        /\ hilos[i].pc = "terminado"
        /\ hilos[i].rama = "invalida"
        /\ NoReconocida(i)
        /\ archivos = inicial

(***************************************************************************)
(* Clasificacion y admision.                                               *)
(***************************************************************************)
\* posiciones anteriores a la entrada al bloque with bd.semaforo
Fuera == {"sin_crear", "semaforo"}

\* C18 (enunciado original): la categoria de una tarea se conoce antes de que
\* tome el semaforo, y una tarea no reconocida nunca ocupa una plaza.
C18_ClasificaAntesDeAdmitir ==
    \A i \in Hilos :
        /\ hilos[i].pc \in Dentro => hilos[i].rama # "ninguna"
        /\ rama(lista_tareas[i]) = "invalida" => hilos[i].pc \notin Dentro

\* C18 (enmendado): la categoria de una tarea se determina dentro del bloque
\* with bd.semaforo: mientras el hilo no entro al bloque no tiene rama ni
\* registro de tarea no reconocida, y toda tarea dentro del bloque, reconocida
\* o no, ocupa una plaza.
C18_ClasificaTrasAdmitir ==
    /\ \A i \in Hilos :
          hilos[i].pc \in Fuera => (hilos[i].rama = "ninguna" /\ ~NoReconocida(i))
    /\ semaforo = max_hilos - Cardinality(EnVuelo)

\* una tarea no reconocida ocupa la unica plaza, ya clasificada, mientras una
\* tarea reconocida espera el semaforo
C18_Testigo ==
    \E i, j \in Hilos :
        /\ max_hilos = 1
        /\ semaforo = 0
        /\ hilos[i].rama = "invalida"
        /\ hilos[i].pc = "finally"
        /\ NoReconocida(i)
        /\ hilos[j].pc = "semaforo"
        /\ rama(lista_tareas[j]) # "invalida"

(***************************************************************************)
(* Efectos de las tareas que fallan.                                       *)
(***************************************************************************)
\* linea que escribe la tarea t
LineaDeTarea(t) == linea_de(evaluar(HiloNuevo, t))

\* hilos de la misma tarea que i que terminaron sin registro de error
IgualesSinError(i) == {j \in Hilos : lista_tareas[j] = lista_tareas[i] /\ ~Fallida(j)}

\* palabras de las tesis de los primeros k hilos que no registraron error
RECURSIVE PalabrasSinError(_)
PalabrasSinError(k) ==
    IF k = 0 THEN 0
    ELSE (IF EsTesis(lista_tareas[k]) /\ ~Fallida(k)
          THEN contar_palabras(texto_de(lista_tareas[k])) ELSE 0)
         + PalabrasSinError(k - 1)

\* C19: al retornar, una tarea que registro un error (del evaluador, de la
\* escritura en su archivo o de la escritura de largo.txt) no dejo efecto: su
\* linea esta en el archivo solo tantas veces como la dejaron el disco inicial
\* y las tareas iguales que no fallaron, y largo.txt suma solo las palabras
\* de las tesis que no fallaron.
C19_FallidaSinEfectos ==
    Terminado =>
        /\ \A i \in Hilos :
              (Fallida(i) /\ rama(lista_tareas[i]) # "invalida") =>
                  Veces(archivos[arch_de(rama(lista_tareas[i]))], LineaDeTarea(lista_tareas[i])) =
                      Veces(inicial[arch_de(rama(lista_tareas[i]))], LineaDeTarea(lista_tareas[i]))
                      + Cardinality(IgualesSinError(i))
        /\ Total(archivos["arch_largo"]) =
              Total(inicial["arch_largo"]) + PalabrasSinError(Len(lista_tareas))

\* el hilo i registro un OSError
FalloES(i) == \E k \in 1..Len(log) : log[k] = RegistroLog("ERROR", i, "OSError")

\* C20: si una escritura en un archivo de categoria o en largo.txt lanza un
\* error de E/S, al retornar la tarea que lo sufrio esta registrada como
\* fallida, todos los locks y las plazas del semaforo estan libres, y cada
\* una de las otras tareas completo con sus efectos: su registro de
\* finalizacion, su linea en el archivo de su categoria y sus palabras en
\* largo.txt.
C20_FalloDeEscrituraAislado ==
    (Terminado /\ fallos < MaxFallos) =>
        /\ \E i \in Hilos : FalloES(i)
        /\ \A l \in Locks : locks[l] = 0
        /\ semaforo = max_hilos
        /\ \A j \in Hilos :
              ~FalloES(j) =>
                  /\ Cardinality(RegistrosDe(j, "INFO")) = 1
                  /\ Exitosa(lista_tareas[j]) =>
                        Veces(archivos[arch_de(rama(lista_tareas[j]))], LineaDeTarea(lista_tareas[j]))
                            >= Veces(inicial[arch_de(rama(lista_tareas[j]))], LineaDeTarea(lista_tareas[j]))
                               + Cardinality(IgualesSinError(j))
        /\ Total(archivos["arch_largo"]) >= PalabrasSinError(Len(lista_tareas))

(***************************************************************************)
(* Orden de las lineas de un archivo de categoria.                         *)
(***************************************************************************)
\* posicion en c, a partir de desde, donde empieza la linea
PosLinea(c, linea, desde) ==
    CHOOSE k \in desde..Len(c) :
        /\ SubSeq(c, k, k + Len(linea) - 1) = linea
        /\ \A m \in desde..(k - 1) : SubSeq(c, m, m + Len(linea) - 1) # linea

\* posicion de la linea que escribio en el lote el hilo i
PosDe(i) ==
    PosLinea(archivos[arch_de(hilos[i].rama)], linea_de(hilos[i]),
             Len(inicial[arch_de(hilos[i].rama)]) + 1)

\* indice en el log del registro de finalizacion del hilo i
IndiceInfo(i) == CHOOSE k \in RegistrosDe(i, "INFO") : TRUE

\* pares de tareas exitosas de la misma categoria cuyas lineas no se repiten
\* en el lote (la linea de cada una se distingue en el archivo)
ParesDeCategoria ==
    {p \in Hilos \X Hilos :
        /\ Exitosa(lista_tareas[p[1]])
        /\ Exitosa(lista_tareas[p[2]])
        /\ rama(lista_tareas[p[1]]) = rama(lista_tareas[p[2]])
        /\ lista_tareas[p[1]] # lista_tareas[p[2]]
        /\ \A q \in Hilos :
               /\ lista_tareas[q] = lista_tareas[p[1]] => q = p[1]
               /\ lista_tareas[q] = lista_tareas[p[2]] => q = p[2]}

\* C21 (enunciado original): al retornar, si la linea de A precede a la de B
\* en el archivo de su categoria, el registro de finalizacion de A precede al
\* de B.
C21_OrdenDeFinalizacion ==
    Terminado =>
        \A p \in ParesDeCategoria :
            PosDe(p[1]) < PosDe(p[2]) => IndiceInfo(p[1]) < IndiceInfo(p[2])

\* C21 (enmendado): las lineas de un archivo de categoria estan en el orden en
\* que las tareas hicieron su escritura bajo el lock: cada escritura agrega
\* su linea al final de lo ya escrito; el registro de finalizacion se emite
\* despues de soltar el lock, asi que solo con una plaza (max_hilos = 1) el
\* orden de las lineas coincide con el de los registros de finalizacion.
C21_OrdenDeEscritura ==
    /\ [][\A i \in Hilos :
             (hilos[i].pc = "append" /\ hilos'[i].pc = "unlock" /\ hilos'[i].e = "ninguna") =>
                 archivos'[arch_de(hilos[i].rama)] =
                     archivos[arch_de(hilos[i].rama)] \o linea_de(hilos[i])]_vars
    /\ []((Terminado /\ max_hilos = 1) =>
             \A p \in ParesDeCategoria :
                 PosDe(p[1]) < PosDe(p[2]) <=> IndiceInfo(p[1]) < IndiceInfo(p[2]))

\* con dos plazas, la linea de A precede a la de B y el registro de
\* finalizacion de B precede al de A
C21_Testigo ==
    /\ Terminado
    /\ max_hilos = 2
    /\ \E p \in ParesDeCategoria :
          /\ PosDe(p[1]) < PosDe(p[2])
          /\ IndiceInfo(p[2]) < IndiceInfo(p[1])

(***************************************************************************)
(* Recursos que toca cada tarea.                                           *)
(***************************************************************************)
\* archivos que la rama r escribe
ArchivosDe(r) ==
    CASE r = "integral" -> {"arch_integrales"}
      [] r = "derivada" -> {"arch_derivadas"}
      [] r = "tesis" -> {"arch_tesis", "arch_largo"}
      [] OTHER -> {}

\* locks que la rama r toma
LocksDe(r) ==
    CASE r = "integral" -> {"lock_integrales"}
      [] r = "derivada" -> {"lock_derivadas"}
      [] r = "tesis" -> {"lock_tesis", "lock_largo"}
      [] OTHER -> {}

\* C22: todo paso que cambia un archivo es de un hilo cuya tarea es de la
\* categoria de ese archivo (largo.txt es de las tesis); un hilo solo tiene
\* locks de su categoria, y un hilo de integral o derivada nunca espera ni
\* tiene lock_largo ni esta en la actualizacion de largo.txt.
C22_SoloRecursosPropios ==
    /\ [][\A a \in DOMAIN archivos :
             archivos'[a] # archivos[a] =>
                 \E i \in Hilos :
                     /\ hilos'[i] # hilos[i]
                     /\ a \in ArchivosDe(rama(lista_tareas[i]))]_vars
    /\ [](\A i \in Hilos :
             /\ \A l \in Locks : locks[l] = i => l \in LocksDe(rama(lista_tareas[i]))
             /\ hilos[i].pc \in ({"lock_largo"} \cup RegionLargo) =>
                   rama(lista_tareas[i]) = "tesis")

\* un lote con una integral y una tesis retorna con integrales.txt, tesis.txt
\* y largo.txt cambiados y derivadas.txt intacto
C22_Testigo ==
    /\ Terminado
    /\ \E i, j \in Hilos :
          /\ rama(lista_tareas[i]) = "integral"
          /\ rama(lista_tareas[j]) = "tesis"
    /\ archivos["arch_integrales"] # inicial["arch_integrales"]
    /\ archivos["arch_tesis"] # inicial["arch_tesis"]
    /\ archivos["arch_largo"] # inicial["arch_largo"]
    /\ archivos["arch_derivadas"] = inicial["arch_derivadas"]

(***************************************************************************)
(* Programa principal: leer_tareas, BaseDeDatos(max_hilos=3),              *)
(* procesar_tareas y el aviso final.                                       *)
(***************************************************************************)
HilosMain == 3     \* bd = BaseDeDatos(max_hilos=3)

\* demanda.txt con una linea por tarea de l y una linea en blanco al final
DemandaDe(l) ==
    [existe |-> TRUE,
     lineas |-> [k \in 1..Len(l) |-> l[k] \o <<SaltoDeLinea>>]
                    \o <<<<Espacio, SaltoDeLinea>>>>]

Demandas ==
    {[existe |-> FALSE, lineas |-> <<>>], [existe |-> TRUE, lineas |-> <<>>]}
        \cup {DemandaDe(l) : l \in Listas(MaxTareas)}

\* tareas = [l.strip() for l in contenido if l.strip()]
RECURSIVE tareas_de(_)
tareas_de(contenido) ==
    IF contenido = <<>> THEN <<>>
    ELSE IF strip(Head(contenido)) # <<>>
    THEN <<strip(Head(contenido))>> \o tareas_de(Tail(contenido))
    ELSE tareas_de(Tail(contenido))

InitMain ==
    /\ demanda \in Demandas
    /\ lista_tareas = <<>>
    /\ max_hilos = HilosMain
    /\ semaforo = max_hilos
    /\ locks = [l \in Locks |-> 0]
    /\ archivos \in DiscosPrevios
    /\ hilos = <<>>
    /\ principal = [pc |-> "main", k |-> 1]
    /\ log = <<>>
    /\ inicial = archivos
    /\ fallos = 0
    /\ ContinuaSinEjecutar

\* variante: leer_tareas no captura sus errores y el proceso termina con ellos
leer_tareas_fatal ==
    /\ principal.pc = "main"
    /\ IF demanda.existe /\ tareas_de(demanda.lineas) # <<>>
       THEN /\ lista_tareas' = tareas_de(demanda.lineas)
            /\ principal' = [principal EXCEPT !.pc = "init"]
       ELSE /\ lista_tareas' = <<>>
            /\ principal' = [principal EXCEPT !.pc = "abortado"]
    /\ log' = log
    /\ hilos' = [i \in 1..Len(lista_tareas') |-> HiloNuevo]
    /\ UNCHANGED <<max_hilos, semaforo, locks, archivos, inicial, fallos, demanda, continua>>

\* tareas = leer_tareas(): sin archivo o sin tareas registra el error y
\* devuelve la lista vacia
leer_tareas ==
    /\ principal.pc = "main"
    /\ IF ~demanda.existe
       THEN /\ log' = Append(log, RegistroLog("ERROR", 0, "No se encontro demanda.txt"))
            /\ lista_tareas' = <<>>
       ELSE IF tareas_de(demanda.lineas) = <<>>
       THEN /\ log' = Append(log, RegistroLog("ERROR", 0, "Error leyendo demanda.txt"))
            /\ lista_tareas' = <<>>
       ELSE /\ log' = log
            /\ lista_tareas' = tareas_de(demanda.lineas)
    /\ hilos' = [i \in 1..Len(lista_tareas') |-> HiloNuevo]
    /\ principal' = [principal EXCEPT !.pc = "init"]
    /\ UNCHANGED <<max_hilos, semaforo, locks, archivos, inicial, fallos, demanda, continua>>

\* print("Finalizado.")
Finalizado ==
    /\ principal.pc = "retorno"
    /\ principal' = [principal EXCEPT !.pc = "finalizado"]
    /\ UNCHANGED <<lista_tareas, max_hilos, semaforo, locks, archivos, hilos,
                   log, inicial, fallos, demanda, continua>>

NextMain ==
    \/ leer_tareas
    \/ Next
    \/ Finalizado

SpecMain == InitMain /\ [][NextMain]_vars

\* demanda.txt falta o no tiene ninguna tarea
SinTareas == ~demanda.existe \/ tareas_de(demanda.lineas) = <<>>

\* C23 (enunciado original): si demanda.txt falta o no tiene tareas, el
\* programa se detiene tras leer_tareas: no construye los archivos ni llega
\* a procesar un lote vacio hasta el aviso final.
C23_SinEntradaEsFatal ==
    SinTareas =>
        /\ principal.pc \notin {"start", "join", "retorno", "finalizado"}
        /\ archivos = inicial

\* C23 (enmendado): si demanda.txt falta o no tiene tareas, leer_tareas
\* registra un error y devuelve la lista vacia; el programa sigue, crea los
\* archivos que falten, procesa el lote vacio sin lanzar hilos y llega al
\* aviso final con los archivos existentes intactos y sin mas registros.
C23_SinEntradaLoteVacio ==
    (SinTareas /\ principal.pc # "main") =>
        /\ lista_tareas = <<>>
        /\ Hilos = {}
        /\ Len(log) = 1
        /\ log[1].nivel = "ERROR"
        /\ principal.pc = "finalizado" \/ ENABLED NextMain
        /\ principal.pc = "finalizado" =>
              /\ DOMAIN archivos = Archivos
              /\ archivos = inicial

\* sin demanda.txt y sin archivos previos, el programa llega al aviso final
\* con los cuatro archivos creados y vacios
C23_Testigo ==
    /\ ~demanda.existe
    /\ principal.pc = "finalizado"
    /\ archivos = DiscoVacio
    /\ log = <<RegistroLog("ERROR", 0, "No se encontro demanda.txt")>>

(***************************************************************************)
(* Valor observable de largo.txt durante el lote.                          *)
(***************************************************************************)
\* C24: en todo paso del lote, largo.txt solo cambia por un paso de una tesis
\* que tiene lock_largo, y el valor que se lee del archivo tras el paso
\* (vacio cuenta como cero) es mayor o igual que el que se leia antes, tambien
\* entre la apertura para reescribir y la escritura del nuevo total.
C24_ContadorNoRetrocede ==
    [][exists(archivos, "arch_largo") =>
          /\ Total(archivos'["arch_largo"]) >= Total(archivos["arch_largo"])
          /\ archivos'["arch_largo"] # archivos["arch_largo"] =>
                \E i \in Hilos :
                    /\ locks["lock_largo"] = i
                    /\ hilos'[i] # hilos[i]
                    /\ rama(lista_tareas[i]) = "tesis"]_vars

(***************************************************************************)
(* Archivos de categoria: solo crecen por el final.                        *)
(***************************************************************************)
\* c es un prefijo de d
EsPrefijo(c, d) == Len(c) <= Len(d) /\ SubSeq(d, 1, Len(c)) = c

\* C25: en todo paso (de una tarea, de crear_archivos o de un fallo de E/S)
\* el contenido anterior de cada archivo de categoria existente es un prefijo
\* del nuevo: ninguna linea ya escrita se quita, se reordena ni se reescribe.
C25_RegistrosSoloCrecen ==
    [][\A a \in Registros \cap DOMAIN archivos :
          /\ a \in DOMAIN archivos'
          /\ EsPrefijo(archivos[a], archivos'[a])]_vars

\* sobre los archivos de una ejecucion anterior, una integral acaba de
\* agregar su linea detras de la que ya estaba
C25_Testigo ==
    \E i \in Hilos :
        /\ hilos[i].pc = "unlock"
        /\ hilos[i].rama = "integral"
        /\ inicial = DiscoPrevio
        /\ archivos["arch_integrales"] =
              DiscoPrevio["arch_integrales"] \o linea_de(hilos[i])

(***************************************************************************)
(* Locks que tiene un hilo.                                                *)
(***************************************************************************)
LocksTomados(i) == {l \in Locks : locks[l] = i}

\* C26: ningun hilo tiene dos locks de recursos a la vez; una tesis que
\* espera o tiene lock_largo ya solto lock_tesis; todo lock tomado lo tiene
\* un hilo que esta dentro del bloque del semaforo.
C26_UnLockPorHilo ==
    /\ \A i \in Hilos :
          /\ Cardinality(LocksTomados(i)) <= 1
          /\ hilos[i].pc = "lock_largo" => LocksTomados(i) = {}
          /\ hilos[i].pc \in RegionLargo => LocksTomados(i) = {"lock_largo"}
    /\ \A l \in Locks : locks[l] # 0 => locks[l] \in EnVuelo

\* una tesis actualiza largo.txt con lock_largo mientras otra tesis escribe
\* su linea con lock_tesis
C26_Testigo ==
    \E i, j \in Hilos :
        /\ hilos[i].pc = "leer"
        /\ locks["lock_largo"] = i
        /\ hilos[j].pc = "append"
        /\ locks["lock_tesis"] = j

(***************************************************************************)
(* Tesis sin palabras y tesis sin separador.                               *)
(***************************************************************************)
\* C27: en un lote de una tarea, una tesis cuyo texto no tiene palabras
\* termina sin error, agrega exactamente una linea (titulo y texto vacio) a
\* tesis.txt y reescribe largo.txt con el mismo valor que tenia; una tesis
\* sin ';' lleva el titulo por defecto y por texto todo lo que sigue al
\* prefijo, sin blancos en los extremos.
C27_TesisSinPalabras ==
    \A i \in Hilos :
        (hilos[i].pc = "terminado" /\ Head(lista_tareas[i]) = "tesis:") =>
            /\ contar_palabras(hilos[i].texto) = 0 =>
                  /\ ~Fallida(i)
                  /\ archivos["arch_tesis"] =
                        inicial["arch_tesis"]
                            \o <<"Tesis: ">> \o hilos[i].titulo \o <<" -- ", SaltoDeLinea>>
                  /\ archivos["arch_largo"] = str(Total(inicial["arch_largo"]))
            /\ ~contiene(lista_tareas[i], ";") =>
                  /\ hilos[i].titulo = <<"Sin titulo">>
                  /\ hilos[i].texto = strip(Tail(lista_tareas[i]))

\* la tarea 'tesis:' sola, sobre archivos nuevos, termina con su linea de
\* titulo por defecto y largo.txt en 0
C27_Testigo ==
    \E i \in Hilos :
        /\ lista_tareas[i] = <<"tesis:">>
        /\ hilos[i].pc = "terminado"
        /\ log = <<RegistroLog("INFO", i, "completada")>>
        /\ archivos["arch_tesis"] = <<"Tesis: ", "Sin titulo", " -- ", SaltoDeLinea>>
        /\ archivos["arch_largo"] = <<"0">>


(***************************************************************************)
(* Competencia de pinguinos                                                *)
(* src/Continua/[TAREA] clase concurrencia (24-oct)/codigo.py              *)
(*                                                                         *)
(* Cada pinguino es un hilo que repite: tomar el mutex, mirar si quedan    *)
(* peces, descontar uno del area de pesca, sumarlo a lo que comio, soltar  *)
(* el mutex y dormir.  Las dos asignaciones de la seccion critica son      *)
(* pasos distintos del hilo.                                               *)
(***************************************************************************)

\* peces_disponibles = 20
PecesIniciales == 20

\* nombres = ["Pingu", "Gloton", "Frio", "Nieve", "Tux"]
nombres == <<"Pingu", "Gloton", "Frio", "Nieve", "Tux">>

\* cantidad de pinguinos que compiten en el modelo
MaxPinguinos == 3

\* los primeros MaxPinguinos nombres de la lista
Competidores == SubSeq(nombres, 1, MaxPinguinos)

Pinguinos == DOMAIN pinguinos

\* el servidor del Laboratorio 4 no se ejecuta
Lab4SinEjecutar ==
    /\ lista_tareas = <<>>
    /\ max_hilos = 1
    /\ semaforo = 1
    /\ locks = [l \in Locks |-> 0]
    /\ archivos = SinArchivos
    /\ hilos = <<>>
    /\ principal = [pc |-> "sin_ejecutar", k |-> 0]
    /\ log = <<>>
    /\ inicial = SinArchivos
    /\ fallos = 0
    /\ demanda = SinDemanda

\* Pinguino(nombre): peces_comidos = 0, hilo creado y sin iniciar
Pinguino(nombre) == [nombre |-> nombre, pc |-> "creado", peces_comidos |-> 0]

InitPinguinos ==
    /\ Lab4SinEjecutar
    /\ pedidos = <<>>
    /\ hilos_pedido = <<>>
    /\ pizzeria = [pc |-> "sin_ejecutar", k |-> 0]
    /\ peces_disponibles = PecesIniciales
    /\ mutex = 0
    /\ pinguinos = [p \in DOMAIN Competidores |-> Pinguino(Competidores[p])]
    /\ competencia = [pc |-> "start", k |-> 1]

resto_pinguinos == <<lab4, pedidos, hilos_pedido, pizzeria>>

\* for p in pinguinos: p.start()
p_start ==
    /\ competencia.pc = "start"
    /\ IF competencia.k <= Len(Competidores)
       THEN /\ pinguinos' = [pinguinos EXCEPT ![competencia.k].pc = "with"]
            /\ competencia' = [competencia EXCEPT !.k = @ + 1]
       ELSE /\ competencia' = [pc |-> "join", k |-> 1]
            /\ UNCHANGED pinguinos
    /\ UNCHANGED <<peces_disponibles, mutex, resto_pinguinos>>

\* variante: el mutex no excluye
mutex_acquire_sin_exclusion(p) ==
    /\ pinguinos[p].pc = "with"
    /\ mutex' = p
    /\ pinguinos' = [pinguinos EXCEPT ![p].pc = "if"]
    /\ UNCHANGED <<peces_disponibles, competencia, resto_pinguinos>>

\* with mutex: (entrada)
mutex_acquire(p) ==
    /\ pinguinos[p].pc = "with"
    /\ mutex = 0
    /\ mutex' = p
    /\ pinguinos' = [pinguinos EXCEPT ![p].pc = "if"]
    /\ UNCHANGED <<peces_disponibles, competencia, resto_pinguinos>>

\* if peces_disponibles <= 0: break
quedan_peces(p) ==
    /\ pinguinos[p].pc = "if"
    /\ pinguinos' = [pinguinos EXCEPT ![p].pc =
                        IF peces_disponibles <= 0 THEN "break" ELSE "pescar"]
    /\ UNCHANGED <<peces_disponibles, mutex, competencia, resto_pinguinos>>

\* break: sale del with (suelta el mutex) y del while; run termina
break(p) ==
    /\ pinguinos[p].pc = "break"
    /\ mutex' = IF mutex = p THEN 0 ELSE mutex
    /\ pinguinos' = [pinguinos EXCEPT ![p].pc = "fin"]
    /\ UNCHANGED <<peces_disponibles, competencia, resto_pinguinos>>

\* peces_disponibles -= 1
pescar(p) ==
    /\ pinguinos[p].pc = "pescar"
    /\ peces_disponibles' = peces_disponibles - 1
    /\ pinguinos' = [pinguinos EXCEPT ![p].pc = "comer"]
    /\ UNCHANGED <<mutex, competencia, resto_pinguinos>>

\* self.peces_comidos += 1; print(...)
comer(p) ==
    /\ pinguinos[p].pc = "comer"
    /\ pinguinos' = [pinguinos EXCEPT ![p].pc = "salir",
                                      ![p].peces_comidos = @ + 1]
    /\ UNCHANGED <<peces_disponibles, mutex, competencia, resto_pinguinos>>

\* fin del with (suelta el mutex); time.sleep(...); vuelve al while
mutex_release(p) ==
    /\ pinguinos[p].pc = "salir"
    /\ mutex' = IF mutex = p THEN 0 ELSE mutex
    /\ pinguinos' = [pinguinos EXCEPT ![p].pc = "with"]
    /\ UNCHANGED <<peces_disponibles, competencia, resto_pinguinos>>

\* Pinguino.run
run(p) ==
    \/ mutex_acquire(p)
    \/ quedan_peces(p)
    \/ break(p)
    \/ pescar(p)
    \/ comer(p)
    \/ mutex_release(p)

\* for p in pinguinos: p.join()
p_join ==
    /\ competencia.pc = "join"
    /\ IF competencia.k <= Len(Competidores)
       THEN /\ pinguinos[competencia.k].pc = "fin"
            /\ competencia' = [competencia EXCEPT !.k = @ + 1]
       ELSE competencia' = [pc |-> "resultados", k |-> 0]
    /\ UNCHANGED <<peces_disponibles, mutex, pinguinos, resto_pinguinos>>

RECURSIVE suma_comidos(_)
\* suma de peces_comidos de los pinguinos 1..n
suma_comidos(n) ==
    IF n = 0 THEN 0 ELSE pinguinos[n].peces_comidos + suma_comidos(n - 1)

\* peces comidos entre todos
total_comidos == suma_comidos(Len(Competidores))

\* print de resultados y del ganador: el primer pinguino con el maximo
resultados ==
    LET ganador ==
            CHOOSE g \in Pinguinos :
                /\ \A q \in Pinguinos :
                       pinguinos[q].peces_comidos <= pinguinos[g].peces_comidos
                /\ \A q \in Pinguinos :
                       pinguinos[q].peces_comidos = pinguinos[g].peces_comidos
                           => g <= q
    IN
    /\ competencia.pc = "resultados"
    /\ competencia' = [pc |-> "fin", k |-> ganador]
    /\ UNCHANGED <<peces_disponibles, mutex, pinguinos, resto_pinguinos>>

NextPinguinos ==
    \/ p_start
    \/ \E p \in Pinguinos : run(p)
    \/ p_join
    \/ resultados

SpecPinguinos == InitPinguinos /\ [][NextPinguinos]_vars

\* pinguinos que ya descontaron el pez y aun no lo sumaron a peces_comidos
EntreLasDosAsignaciones == {p \in Pinguinos : pinguinos[p].pc = "comer"}

\* todos los hilos terminaron
TodosTerminaron == \A p \in Pinguinos : pinguinos[p].pc = "fin"

\* C28 (enunciado original): en todo estado alcanzable peces_disponibles >= 0
\* y peces_disponibles mas la suma de peces_comidos es 20; al terminar todos
\* los hilos quedan 0 peces y se comieron 20.
C28_SumaSiempreVeinte ==
    /\ peces_disponibles >= 0
    /\ peces_disponibles + total_comidos = PecesIniciales
    /\ TodosTerminaron =>
           (peces_disponibles = 0 /\ total_comidos = PecesIniciales)

\* C28 (enmendado): peces_disponibles >= 0 siempre; peces_disponibles mas la
\* suma de peces_comidos es 20 salvo mientras un pinguino esta entre
\* "peces_disponibles -= 1" y "self.peces_comidos += 1", donde es 19 (con el
\* mutex libre es siempre 20); un pez solo se toma con el mutex tomado por
\* quien lo toma y habiendo peces; al terminar todos quedan 0 peces y se
\* comieron 20 en total.
C28_PecesConservados ==
    /\ [](/\ peces_disponibles >= 0
          /\ Cardinality(EntreLasDosAsignaciones) <= 1
          /\ peces_disponibles + total_comidos + Cardinality(EntreLasDosAsignaciones)
                 = PecesIniciales
          /\ mutex = 0 => EntreLasDosAsignaciones = {}
          /\ \A p \in EntreLasDosAsignaciones : mutex = p
          /\ TodosTerminaron =>
                 (peces_disponibles = 0 /\ total_comidos = PecesIniciales))
    /\ [][peces_disponibles' # peces_disponibles =>
             /\ peces_disponibles > 0
             /\ peces_disponibles' = peces_disponibles - 1
             /\ mutex # 0
             /\ mutex' = mutex
             /\ pinguinos[mutex].pc = "pescar"
             /\ pinguinos'[mutex].pc = "comer"]_vars
    /\ [][\A p \in Pinguinos :
             pinguinos'[p].peces_comidos # pinguinos[p].peces_comidos =>
                 /\ mutex = p
                 /\ pinguinos[p].pc = "comer"
                 /\ pinguinos'[p].peces_comidos = pinguinos[p].peces_comidos + 1
                 /\ peces_disponibles' = peces_disponibles]_vars

\* la competencia termino, se repartieron los 20 peces y todos comieron
C28_Testigo ==
    /\ competencia.pc = "fin"
    /\ TodosTerminaron
    /\ peces_disponibles = 0
    /\ total_comidos = PecesIniciales
    /\ \A p \in Pinguinos : pinguinos[p].peces_comidos > 0

(***************************************************************************)
(* Pizzeria con grafo de precedencia                                       *)
(* src/Continua/[TAREA] clase concurrencia (23-oct)/codigo.py              *)
(*                                                                         *)
(* Cada pedido es un hilo que recorre su lista de etapas.  Antes de cada   *)
(* etapa espera, con sondeo y sleep, a que las dependencias de la etapa    *)
(* que figuran en el pedido esten en su conjunto local completadas.        *)
(* La clave de FUNCIONES_TAREAS escrita con enie se representa con el      *)
(* simbolo "agregar_champi~ones".                                          *)
(***************************************************************************)

\* claves de FUNCIONES_TAREAS
FUNCIONES_TAREAS ==
    {"preparar_masa", "agregar_salsa", "agregar_queso", "agregar_pepperoni",
     "agregar_champi~ones", "agregar_champinones", "hornear"}

\* grafo del programa principal: tarea -> lista de tareas de las que depende
dependencias ==
    [t \in FUNCIONES_TAREAS |->
        CASE t = "agregar_salsa" -> <<"preparar_masa">>
          [] t = "agregar_queso" -> <<"agregar_salsa">>
          [] t = "agregar_pepperoni" -> <<"agregar_queso">>
          [] t = "agregar_champinones" -> <<"agregar_queso">>
          [] t = "hornear" ->
                 <<"agregar_queso", "agregar_pepperoni", "agregar_champinones">>
          [] OTHER -> <<>>]

\* grafo.get_dependencias(tarea)
get_dependencias(tarea) == dependencias[tarea]

\* x in lista
en_lista(x, lista) == \E j \in DOMAIN lista : lista[j] = x

RECURSIVE filtrar_en(_, _)
\* [d for d in lista if d in etapas]
filtrar_en(lista, etapas) ==
    IF lista = <<>> THEN <<>>
    ELSE IF en_lista(Head(lista), etapas)
         THEN <<Head(lista)>> \o filtrar_en(Tail(lista), etapas)
         ELSE filtrar_en(Tail(lista), etapas)

\* variante: no se filtran las dependencias ajenas al pedido
dependencias_sin_filtrar(tarea, etapas) == get_dependencias(tarea)

\* dependencias_reales = [d for d in grafo.get_dependencias(tarea) if d in etapas]
dependencias_reales(tarea, etapas) == filtrar_en(get_dependencias(tarea), etapas)

\* pedidos del programa principal
PedidosMain ==
    << <<"preparar_masa", "agregar_salsa", "agregar_queso", "hornear">>,
       <<"preparar_masa", "agregar_salsa", "agregar_queso", "agregar_pepperoni",
         "hornear">>,
       <<"preparar_masa", "agregar_salsa", "agregar_queso",
         "agregar_champinones", "hornear">> >>

\* cantidad de pedidos de las listas que no son la del programa principal
MaxPedidos == 2

\* listas de etapas de un pedido: las del programa principal y otras con
\* las que se llama a ejecutar_pedido
Etapas ==
    {PedidosMain[j] : j \in DOMAIN PedidosMain} \cup
    { <<>>,
      <<"agregar_salsa", "hornear">>,
      <<"preparar_masa", "agregar_champi~ones", "hornear">>,
      <<"agregar_salsa", "preparar_masa">>,
      <<"preparar_masa", "hornear", "agregar_queso">> }

\* listas de pedidos
ListasDePedidos ==
    {PedidosMain} \cup UNION {[1..n -> Etapas] : n \in 0..MaxPedidos}

InitPizzeria ==
    /\ Lab4SinEjecutar
    /\ peces_disponibles = 0
    /\ mutex = 0
    /\ pinguinos = <<>>
    /\ competencia = [pc |-> "sin_ejecutar", k |-> 0]
    /\ pedidos \in ListasDePedidos
    /\ hilos_pedido = <<>>
    /\ pizzeria = [pc |-> "start", k |-> 1]

resto_pizzeria == <<lab4, peces_disponibles, mutex, pinguinos, competencia>>

HilosPedido == DOMAIN hilos_pedido

\* threading.Thread(target=ejecutar_pedido, args=(i, etapas, grafo))
Thread(i, etapas) ==
    [pedido_id |-> i, etapas |-> etapas, pc |-> "inicio", k |-> 1,
     dependencias_reales |-> <<>>, d |-> 1, completadas |-> {},
     ejecutadas |-> <<>>]

\* for i, etapas in enumerate(pedidos, start=1): ... t.start()
z_start ==
    /\ pizzeria.pc = "start"
    /\ IF pizzeria.k <= Len(pedidos)
       THEN /\ hilos_pedido' =
                   Append(hilos_pedido, Thread(pizzeria.k, pedidos[pizzeria.k]))
            /\ pizzeria' = [pizzeria EXCEPT !.k = @ + 1]
       ELSE /\ pizzeria' = [pc |-> "join", k |-> 1]
            /\ UNCHANGED hilos_pedido
    /\ UNCHANGED <<pedidos, resto_pizzeria>>

\* completadas = set()
inicio(i) ==
    /\ hilos_pedido[i].pc = "inicio"
    /\ hilos_pedido' = [hilos_pedido EXCEPT ![i].completadas = {},
                                            ![i].pc = "for"]
    /\ UNCHANGED <<pedidos, pizzeria, resto_pizzeria>>

\* for tarea in etapas: dependencias_reales = [...]
for(i) ==
    LET h == hilos_pedido[i] IN
    /\ h.pc = "for"
    /\ hilos_pedido' =
           IF h.k <= Len(h.etapas)
           THEN [hilos_pedido EXCEPT
                    ![i].dependencias_reales =
                        dependencias_reales(h.etapas[h.k], h.etapas),
                    ![i].d = 1,
                    ![i].pc = "while"]
           ELSE [hilos_pedido EXCEPT ![i].pc = "fin"]
    /\ UNCHANGED <<pedidos, pizzeria, resto_pizzeria>>

\* variante: no se espera a las dependencias
while_sin_esperar(i) ==
    /\ hilos_pedido[i].pc = "while"
    /\ hilos_pedido' = [hilos_pedido EXCEPT ![i].pc = "ejecutar"]
    /\ UNCHANGED <<pedidos, pizzeria, resto_pizzeria>>

\* for dependencia in dependencias_reales: while dependencia not in completadas
while(i) ==
    LET h == hilos_pedido[i] IN
    /\ h.pc = "while"
    /\ hilos_pedido' =
           IF h.d > Len(h.dependencias_reales)
           THEN [hilos_pedido EXCEPT ![i].pc = "ejecutar"]
           ELSE IF h.dependencias_reales[h.d] \notin h.completadas
                THEN [hilos_pedido EXCEPT ![i].pc = "sleep"]
                ELSE [hilos_pedido EXCEPT ![i].d = @ + 1]
    /\ UNCHANGED <<pedidos, pizzeria, resto_pizzeria>>

\* time.sleep(0.05)
sleep(i) ==
    /\ hilos_pedido[i].pc = "sleep"
    /\ hilos_pedido' = [hilos_pedido EXCEPT ![i].pc = "while"]
    /\ UNCHANGED <<pedidos, pizzeria, resto_pizzeria>>

\* FUNCIONES_TAREAS[tarea](pedido_id)
ejecutar(i) ==
    LET h == hilos_pedido[i] IN
    /\ h.pc = "ejecutar"
    /\ h.etapas[h.k] \in FUNCIONES_TAREAS
    /\ hilos_pedido' = [hilos_pedido EXCEPT
                           ![i].ejecutadas = Append(@, h.etapas[h.k]),
                           ![i].pc = "add"]
    /\ UNCHANGED <<pedidos, pizzeria, resto_pizzeria>>

\* completadas.add(tarea)
add(i) ==
    LET h == hilos_pedido[i] IN
    /\ h.pc = "add"
    /\ hilos_pedido' = [hilos_pedido EXCEPT
                           ![i].completadas = @ \cup {h.etapas[h.k]},
                           ![i].k = @ + 1,
                           ![i].pc = "for"]
    /\ UNCHANGED <<pedidos, pizzeria, resto_pizzeria>>

\* ejecutar_pedido(pedido_id, etapas, grafo)
ejecutar_pedido(i) ==
    /\ i \in HilosPedido
    /\ \/ inicio(i)
       \/ for(i)
       \/ while(i)
       \/ sleep(i)
       \/ ejecutar(i)
       \/ add(i)

\* for h in hilos: h.join()
z_join ==
    /\ pizzeria.pc = "join"
    /\ IF pizzeria.k <= Len(hilos_pedido)
       THEN /\ hilos_pedido[pizzeria.k].pc = "fin"
            /\ pizzeria' = [pizzeria EXCEPT !.k = @ + 1]
       ELSE pizzeria' = [pc |-> "print", k |-> 0]
    /\ UNCHANGED <<pedidos, hilos_pedido, resto_pizzeria>>

\* print("Todos los pedidos fueron completados con exito.")
z_print ==
    /\ pizzeria.pc = "print"
    /\ pizzeria' = [pizzeria EXCEPT !.pc = "fin"]
    /\ UNCHANGED <<pedidos, hilos_pedido, resto_pizzeria>>

NextPizzeria ==
    \/ z_start
    \/ \E i \in HilosPedido : ejecutar_pedido(i)
    \/ z_join
    \/ z_print

SpecPizzeria == InitPizzeria /\ [][NextPizzeria]_vars

\* dependencias de la etapa segun el grafo que ademas figuran en el pedido
EnElPedido(tarea, etapas) ==
    {dep \in FUNCIONES_TAREAS :
        en_lista(dep, get_dependencias(tarea)) /\ en_lista(dep, etapas)}

\* etapas ejecutadas antes de la posicion n
Antes(lista, n) == {lista[j] : j \in 1..(n - 1)}

\* C29: dentro de un pedido una etapa solo empieza cuando todas sus
\* dependencias segun el grafo que figuran en el mismo pedido estan completadas
\* para ese pedido; las dependencias que no figuran en el pedido no se esperan;
\* las etapas de pedidos distintos no se ordenan entre si: cada paso cambia
\* solo al hilo que lo da y un hilo solo espera por una dependencia que falta
\* en su propio conjunto completadas.
C29_PrecedenciaPorPedido ==
    /\ [](\A i \in HilosPedido :
            LET h == hilos_pedido[i] IN
            /\ h.pc \in {"ejecutar", "add"} =>
                   EnElPedido(h.etapas[h.k], h.etapas) \subseteq h.completadas
            /\ \A n \in DOMAIN h.ejecutadas :
                   EnElPedido(h.ejecutadas[n], h.etapas)
                       \subseteq Antes(h.ejecutadas, n)
            /\ h.completadas \subseteq Antes(h.ejecutadas, Len(h.ejecutadas) + 1)
            /\ h.pc \in {"while", "sleep", "ejecutar", "add"} =>
                   \A n \in DOMAIN h.dependencias_reales :
                       h.dependencias_reales[n] \in EnElPedido(h.etapas[h.k], h.etapas)
            /\ h.pc = "sleep" =>
                   /\ h.dependencias_reales[h.d] \in EnElPedido(h.etapas[h.k], h.etapas)
                   /\ h.dependencias_reales[h.d] \notin h.completadas)
    /\ [][\A i \in HilosPedido :
             hilos_pedido'[i] # hilos_pedido[i] =>
                 /\ \A j \in HilosPedido \ {i} : hilos_pedido'[j] = hilos_pedido[j]
                 /\ (hilos_pedido[i].pc = "while" /\ hilos_pedido'[i].pc = "ejecutar") =>
                        EnElPedido(hilos_pedido[i].etapas[hilos_pedido[i].k],
                                   hilos_pedido[i].etapas)
                            \subseteq hilos_pedido[i].completadas]_vars

\* con los pedidos del programa principal: el pedido 1 ya horneo sin que se
\* completaran pepperoni ni champinones, el pedido 2 empieza el pepperoni con
\* el queso completado y el pedido 3 aun no ejecuto ninguna etapa
C29_Testigo ==
    /\ pedidos = PedidosMain
    /\ Len(hilos_pedido) = 3
    /\ en_lista("hornear", hilos_pedido[1].ejecutadas)
    /\ "agregar_pepperoni" \notin hilos_pedido[1].completadas
    /\ "agregar_champinones" \notin hilos_pedido[1].completadas
    /\ hilos_pedido[2].pc = "ejecutar"
    /\ hilos_pedido[2].etapas[hilos_pedido[2].k] = "agregar_pepperoni"
    /\ "agregar_queso" \in hilos_pedido[2].completadas
    /\ hilos_pedido[3].ejecutadas = <<>>

\* mayor cantidad de hilos de pedido de una lista de pedidos
CotaHilosPedido ==
    IF MaxPedidos > Len(PedidosMain) THEN MaxPedidos ELSE Len(PedidosMain)

\* el planificador no posterga para siempre al programa principal ni a un
\* hilo de pedido que puede dar un paso (sleep devuelve el control)
SpecPizzeriaJusta ==
    /\ InitPizzeria
    /\ [][NextPizzeria]_vars
    /\ WF_vars(z_start \/ z_join \/ z_print)
    /\ \A i \in 1..CotaHilosPedido : WF_vars(ejecutar_pedido(i))

\* cada etapa figura despues de sus dependencias que estan en el pedido
BienOrdenadas(etapas) ==
    \A n \in DOMAIN etapas : EnElPedido(etapas[n], etapas) \subseteq Antes(etapas, n)

\* el hilo i existe y esta en la posicion pc
HiloEn(i, pcs) == i \in HilosPedido /\ hilos_pedido[i].pc \in pcs

=============================================================================
